---- MODULE Spec2Model ----
(***************************************************************************)
(* Hand Tool Tracker: the view (tool pools, stacks, crew drop zones), the  *)
(* Application State (js/state.js), the Persistent Store (js/storage.js)   *)
(* and the orchestrator (js/main.js) as a state machine.                   *)
(*                                                                         *)
(* The DOM is modelled structurally: every pool is the sequence of its     *)
(* children in document order, a child being a tool element or a stack     *)
(* with its tool items; every crew drop zone is the sequence of its        *)
(* checkout rows.  An element reference (the dragged element, the result   *)
(* of a querySelector) is the path of the element in that tree.            *)
(***************************************************************************)
EXTENDS Integers, Sequences, FiniteSets, TLC

VARIABLES
    inventory,       \* appState.state.toolInventory: category -> list of tool definitions
    draggedElement,  \* appState.state.draggedElement: an element reference or NULL
    lastUpdateTime,  \* appState.state.lastUpdateTime
    expandedStacks,  \* appState.state.expandedStacks: a set of tool names
    view,            \* the document: [pools, zones, listeners], with drag.js's
                     \* globalEventsSetup
    store,           \* localStorage: [items: key -> stored JSON text, budget]
    isAvailable,     \* Storage.isAvailable, the cached result of the probe
    today,           \* the calendar day the clock shows (new Date())
    hlog,            \* calls so far: [saves, saved, deleted, rejected], the number of
                     \* Save calls, the date keys passed to saveToHistory /
                     \* deleteHistoryEntry, and whether Add Tool has shown an error
    app,             \* the AppState object with the objects it and its caller hold,
                     \* as the Application State specifications follow it (the other
                     \* specifications follow the Application State by value)
    autoSaveInterval, \* ToolTrackerApp.autoSaveInterval: whether an autosave timer is set
    touchItem,       \* drag.js touchItem: the element a touch drag started on, or NULL
    saveBtn          \* the .btn-save element: [text, bg] and the pending timers of
                     \* showSaveFeedback, oldest first

vars == <<inventory, draggedElement, lastUpdateTime, expandedStacks, view, store,
          isAvailable, today, hlog, app, autoSaveInterval, touchItem, saveBtn>>

----------------------------------------------------------------------------
(* Bounds of the model *)

\* number of crew cards rendered (CONFIG.CREW_COUNT is 8)
NumCrews == 2
\* quantity of the one default Tool Definition (the default Claw Hammer has 8)
DefaultQty == 2
\* the clock runs over the days 1..MaxDay in the view specification
MaxDay == 2
\* number of observers that subscribe to the Application State
NumObservers == 3
\* number of Tool Definitions Add Tool may add beyond the default ones
MaxAdds == 1
\* number of elements the broken pool may hold (initializeInventory never
\* empties the broken pool, so its population has no bound of its own)
MaxBroken == 1
\* number of Save calls (button presses and autosave ticks) in a run
MaxSaves == 1
\* the history specification passes explicit date keys and deletes entries
\* only during the first FreeDays days, over the date keys 1..FreeDays
FreeDays == 2
\* days the history specification runs beyond HistoryCap + FreeDays, so that
\* the cap overflows even from an index that is empty after the free days
ExtraDays == 1

(* Program constants *)

\* storage.js:295  if (index.length > 90)
HistoryCap == 90
\* config.js VALIDATION
MIN_TOOL_NAME_LENGTH == 1
MAX_TOOL_NAME_LENGTH == 100
MIN_QUANTITY == 1
MAX_QUANTITY == 999

NULL == [null |-> TRUE]

Crews == 1..NumCrews

\* CONFIG.CATEGORIES, restricted to one category
Categories == {"hammers"}
CategoryOrder == <<"hammers">>
\* CONFIG.POOL_IDS
POOL_IDS == [hammers |-> "hammersPool", broken |-> "brokenPool"]
\* CONFIG.CATEGORY_CLASSES
CATEGORY_CLASSES == [hammers |-> "hammer"]
\* the pool sections of the page in document order (the order of CONFIG.POOL_IDS)
PoolOrder == <<"hammersPool", "brokenPool">>
PoolIds == {PoolOrder[i] : i \in 1..Len(PoolOrder)}

\* DEFAULT_TOOL_INVENTORY, one Tool Definition of quantity DefaultQty
DEFAULT_TOOL_INVENTORY ==
    [hammers |-> <<[name |-> "Claw Hammer", qty |-> DefaultQty, class |-> "hammer"]>>]

\* the checkout times the clock can give (toLocaleTimeString, hh:mm)
Times == {"09:00"}

----------------------------------------------------------------------------
(* Sequence helpers *)

\* s without its i-th element
SeqFilterOut(s, i) == SubSeq(s, 1, i - 1) \o SubSeq(s, i + 1, Len(s))

Range(s) == {s[i] : i \in 1..Len(s)}

RECURSIVE Flatten(_)
\* concatenation of a sequence of sequences
Flatten(ss) == IF ss = <<>> THEN <<>> ELSE Head(ss) \o Flatten(Tail(ss))

----------------------------------------------------------------------------
(* The view: elements *)

\* tools.js createToolElement: a draggable tool element, available and visible,
\* with no listener on it
createToolElement(tool, toolNumber) ==
    [kind |-> "tool", name |-> tool.name, num |-> toolNumber, item |-> FALSE,
     out |-> FALSE, hidden |-> FALSE, broken |-> FALSE, crew |-> 0, time |-> "",
     on |-> <<>>]

\* tools.js createToolStack, lines 88-93: the tool items 1..qty of the stack, as
\* a sequence of their own (SubSeq gives the elements one by one)
StackItems(tool) ==
    SubSeq([i \in 1..tool.qty |-> [createToolElement(tool, i) EXCEPT !.item = TRUE]],
           1, tool.qty)

\* tools.js createToolStack, lines 52-93: the stack element with its badge and items
NewStack(tool) ==
    [kind |-> "stack", name |-> tool.name, badge |-> tool.qty, hidden |-> FALSE,
     expanded |-> FALSE, on |-> <<>>,
     items |-> StackItems(tool)]

\* tools.js createToolStack: append a single element or a stack to the pool
createToolStack(v, tool, poolId) ==
    IF poolId \notin PoolIds THEN v
    ELSE IF tool.qty = 1
         THEN [v EXCEPT !.pools[poolId] = Append(@, createToolElement(tool, 1))]
         ELSE [v EXCEPT !.pools[poolId] = Append(@, NewStack(tool))]

\* an element reference: child i of pool p, or item j of the stack that is child i
Ref(p, i, j) == [pool |-> p, i |-> i, j |-> j]

ElemAt(v, r) ==
    IF r.j = 0 THEN v.pools[r.pool][r.i] ELSE v.pools[r.pool][r.i].items[r.j]

SetElem(v, r, e) ==
    IF r.j = 0 THEN [v EXCEPT !.pools[r.pool][r.i] = e]
    ELSE [v EXCEPT !.pools[r.pool][r.i].items[r.j] = e]

\* the references of child i of pool p, in document order
ChildRefs(v, p, i) ==
    LET n == v.pools[p][i] IN
    IF n.kind = "tool" THEN <<Ref(p, i, 0)>>
    ELSE [j \in 1..Len(n.items) |-> Ref(p, i, j)]

PoolRefs(v, p) == Flatten([i \in 1..Len(v.pools[p]) |-> ChildRefs(v, p, i)])

\* every tool element of the document, in document order
AllRefs(v) == Flatten([k \in 1..Len(PoolOrder) |-> PoolRefs(v, PoolOrder[k])])

\* document.querySelector('.draggable[data-tool-name=..][data-tool-number=..]'):
\* the first match in document order, or NULL
QueryTool(v, name, num) ==
    LET refs == AllRefs(v)
        hits == {k \in 1..Len(refs) :
                    ElemAt(v, refs[k]).name = name /\ ElemAt(v, refs[k]).num = num}
    IN IF hits = {} THEN NULL
       ELSE refs[CHOOSE k \in hits : \A m \in hits : k <= m]

\* element.closest('.tool-stack'): the stack an element lies in, if any
InStack(r) == r.j # 0

\* tools.js updateStackCount
updateStackCount(stack) ==
    LET availableCount ==
            Cardinality({j \in 1..Len(stack.items) : ~stack.items[j].out})
    IN [stack EXCEPT !.badge = availableCount, !.hidden = (availableCount = 0)]

\* updateStackCount applied to the stack of reference r, when r lies in one
UpdateStackOf(v, r) ==
    IF InStack(r)
    THEN [v EXCEPT !.pools[r.pool][r.i] = updateStackCount(@)]
    ELSE v

\* tools.js createToolStack, lines 95-124: toggleStack on the stack that is
\* child i of pool p
toggleStack(v, p, i) ==
    [v EXCEPT !.pools[p][i] = updateStackCount([@ EXCEPT !.expanded = ~@])]

\* the document without the element at r
Detach(v, r) ==
    IF r.j = 0 THEN [v EXCEPT !.pools[r.pool] = SeqFilterOut(@, r.i)]
    ELSE [v EXCEPT !.pools[r.pool][r.i].items = SeqFilterOut(@, r.j)]

\* pool.appendChild(element): the element moves to the end of the pool
AppendTo(v, r, e, poolId) ==
    LET w == Detach(v, r) IN [w EXCEPT !.pools[poolId] = Append(@, e)]

----------------------------------------------------------------------------
(* crews.js *)

\* crews.js createCrewCards: one empty drop zone per crew 1..CREW_COUNT
createCrewCards(v) == [v EXCEPT !.zones = [c \in Crews |-> <<>>]]

\* crews.js createCheckoutItem: the checkout row and its dataset
createCheckoutItem(tool, toolNumber, time, crewNumber) ==
    [tool |-> tool, num |-> toolNumber, time |-> time, crew |-> crewNumber]

\* crews.js checkoutTool(toolElement, dropZone) with dropZone the zone of crewNumber
checkoutTool(v, r, crewNumber, time) ==
    IF r = NULL \/ crewNumber \notin Crews THEN [v |-> v, ret |-> FALSE]
    ELSE LET e == ElemAt(v, r)
             checkoutItem == createCheckoutItem(e.name, e.num, time, crewNumber)
             w == SetElem(v, r, [e EXCEPT !.out = TRUE, !.hidden = TRUE,
                                          !.time = time, !.crew = crewNumber])
         IN [v |-> [w EXCEPT !.zones[crewNumber] = Append(@, checkoutItem)],
             ret |-> TRUE]

\* crews.js markToolBroken: tag broken and move into the broken pool
markToolBroken(v, r) ==
    IF r = NULL THEN v
    ELSE AppendTo(v, r, [ElemAt(v, r) EXCEPT !.broken = TRUE], POOL_IDS.broken)

\* crews.js unmarkToolBroken: remove the broken tag (the element stays where it is)
unmarkToolBroken(v, r) ==
    IF r = NULL THEN v ELSE SetElem(v, r, [ElemAt(v, r) EXCEPT !.broken = FALSE])

----------------------------------------------------------------------------
(* drag.js (src/unnamed/part_004) *)

CrewZone(c) == [kind |-> "crew", crew |-> c, id |-> ""]
PoolZone(p) == [kind |-> "pool", crew |-> 0, id |-> p]
\* the drop targets: the crew drop zones (.drop-zone[data-crew]) and the pool
\* containers (.resource-items), the broken pool among them
DropZones == {CrewZone(c) : c \in Crews} \cup {PoolZone(p) : p \in PoolIds}
\* a .drop-zone element that carries no data-crew and is no pool
OtherZone == [kind |-> "other", crew |-> 0, id |-> ""]

\* drag.js handleDragStart / handleTouchStart: which elements a drag can start on
\* (a hidden element cannot be grabbed)
CanDrag(v, r) ==
    LET e == ElemAt(v, r) IN ~e.out /\ ~e.hidden

\* a handleDrop that takes every target that is no crew zone for the broken pool
handleDropElsewhere(v, r, dropZone, time) ==
    IF r = NULL THEN v
    ELSE IF dropZone.kind = "crew"
    THEN LET res == checkoutTool(v, r, dropZone.crew, time)
         IN IF res.ret THEN UpdateStackOf(res.v, r) ELSE res.v
    ELSE markToolBroken(v, r)

\* drag.js handleDrop(draggedElement, dropZone); time is the clock's time of day
handleDrop(v, r, dropZone, time) ==
    IF r = NULL THEN v
    ELSE IF dropZone.kind = "crew"
    THEN \* check out to a crew
         LET res == checkoutTool(v, r, dropZone.crew, time)
         IN IF res.ret THEN UpdateStackOf(res.v, r) ELSE res.v
    ELSE IF dropZone.id = "brokenPool"
    THEN \* move to broken pool
         markToolBroken(v, r)
    ELSE IF dropZone.kind = "pool"
    THEN \* return to a resource pool; the element is then a child of the pool,
         \* so closest('.tool-stack') finds no stack to update
         LET w == IF ElemAt(v, r).broken THEN unmarkToolBroken(v, r) ELSE v
         IN AppendTo(w, r, ElemAt(w, r), dropZone.id)
    ELSE v

\* drag.js handleDrop: whether the drop reaches updateLastModifiedTime
DropHandled(r, dropZone) ==
    /\ r # NULL
    /\ \/ dropZone.kind = "crew" /\ dropZone.crew \in Crews
       \/ dropZone.kind = "pool"

\* drag.js drop listener: the zone found from the event's target (NULL when
\* closest() finds none) and the dragged reference decide whether handleDrop runs
dropListener(v, dragged, dropZone, time) ==
    IF dropZone # NULL /\ dragged # NULL
    THEN [v |-> handleDrop(v, dragged, dropZone, time),
          handled |-> DropHandled(dragged, dropZone)]
    ELSE [v |-> v, handled |-> FALSE]

\* a clearDraggedElement that leaves the reference in place
clearDraggedElementKeeping(dragged) == dragged

\* state.js clearDraggedElement: setState({ draggedElement: null })
clearDraggedElement(dragged) == NULL

\* the target of a drag start is a stack label
IsStackLabel(v, target) == ElemAt(v, target).kind = "stack"

\* a handleDragStart without the check for checked-out tools
handleDragStartUnchecked(v, dragged, target) ==
    IF IsStackLabel(v, target) THEN dragged ELSE target

\* drag.js handleDragStart: the dragged reference after a dragstart on target
handleDragStart(v, dragged, target) ==
    IF IsStackLabel(v, target) THEN dragged
    ELSE IF ElemAt(v, target).out THEN dragged
    ELSE target

\* drag.js handleTouchStart: the dragged reference and touchItem after a
\* touchstart on target
handleTouchStart(v, dragged, item, target) ==
    IF IsStackLabel(v, target) \/ ElemAt(v, target).out
    THEN [draggedElement |-> dragged, touchItem |-> item]
    ELSE [draggedElement |-> target, touchItem |-> target]

\* drag.js handleTouchEnd with dropZone the zone under the lifted finger, or NULL
handleTouchEnd(v, dragged, item, dropZone, time) ==
    IF item = NULL
    THEN [v |-> v, draggedElement |-> dragged, touchItem |-> item, handled |-> FALSE]
    ELSE LET dropped == dropZone # NULL /\ dragged # NULL
         IN [v |-> IF dropped THEN handleDrop(v, dragged, dropZone, time) ELSE v,
             draggedElement |-> clearDraggedElement(dragged),
             touchItem |-> NULL,
             handled |-> dropped /\ DropHandled(dragged, dropZone)]

\* the listeners setupDragEvents puts on a .draggable element, lines 28-37:
\* the event type and the function, the six functions being drag.js's own
DragListeners ==
    <<[type |-> "dragstart", fn |-> "handleDragStart"],
      [type |-> "dragend", fn |-> "handleDragEnd"],
      [type |-> "touchstart", fn |-> "handleTouchStart"],
      [type |-> "touchmove", fn |-> "handleTouchMove"],
      [type |-> "touchend", fn |-> "handleTouchEnd"],
      [type |-> "keydown", fn |-> "handleKeyDown"]>>

\* EventTarget.addEventListener: a listener of the same type and the same
\* function as one already on the target is not added again
addEventListener(list, listener) ==
    IF listener \in Range(list) THEN list ELSE Append(list, listener)

RECURSIVE AddListeners(_, _)
AddListeners(list, listeners) ==
    IF listeners = <<>> THEN list
    ELSE AddListeners(addEventListener(list, Head(listeners)), Tail(listeners))

\* the listeners of one type on a target, as a number
ListenerCount(list, type) == Len(SelectSeq(list, LAMBDA l : l.type = type))

\* drag.js setupDragEvents, lines 26-38, on one .draggable element
ListenTo(e) == [e EXCEPT !.on = AddListeners(@, DragListeners)]

\* lines 26-38 on child n of a pool: a tool element, or a stack with its label
\* and its tool items
ListenChild(n) ==
    IF n.kind = "stack"
    THEN [ListenTo(n) EXCEPT !.items =
              SubSeq([j \in 1..Len(n.items) |-> ListenTo(n.items[j])], 1, Len(n.items))]
    ELSE ListenTo(n)

\* an arrow function is a new function at every evaluation: the listener is
\* numbered by its place among the document's listeners
addDocumentListener(v, type) ==
    [v EXCEPT !.listeners = addEventListener(@, [type |-> type, fn |-> Len(@) + 1])]

\* drag.js setupGlobalDropEvents: four listeners on the document
setupGlobalDropEvents(v) ==
    addDocumentListener(addDocumentListener(addDocumentListener(
        addDocumentListener(v, "dragover"), "dragenter"), "dragleave"), "drop")

\* the listeners put on every .draggable element of the document
ListenAll(v) ==
    [v EXCEPT !.pools =
        [p \in PoolIds |->
            SubSeq([i \in 1..Len(v.pools[p]) |-> ListenChild(v.pools[p][i])],
                   1, Len(v.pools[p]))]]

\* a setupDragEvents that sets up the global drop events at every call
setupDragEventsEveryTime(v) ==
    [setupGlobalDropEvents(ListenAll(v)) EXCEPT !.globalEventsSetup = TRUE]

\* drag.js setupDragEvents
setupDragEvents(v) ==
    IF ~v.globalEventsSetup
    THEN [setupGlobalDropEvents(ListenAll(v)) EXCEPT !.globalEventsSetup = TRUE]
    ELSE ListenAll(v)

RECURSIVE DispatchDragStart(_, _, _, _)
\* a dragstart event on target: handleDragStart once per listener
DispatchDragStart(v, dragged, target, n) ==
    IF n = 0 THEN dragged
    ELSE DispatchDragStart(v, handleDragStart(v, dragged, target), target, n - 1)

\* where the element at r is after handleDrop on dropZone: a crew zone leaves
\* it in its place, a pool takes it as its last child
DroppedRef(v, r, dropZone) ==
    IF dropZone.kind = "pool"
    THEN Ref(dropZone.id, Len(handleDrop(v, r, dropZone, "").pools[dropZone.id]), 0)
    ELSE r

RECURSIVE DispatchDrop(_, _, _, _, _)
\* a drop event over dropZone: the drop listener once per listener on the document
DispatchDrop(v, dragged, dropZone, time, n) ==
    IF n = 0 THEN [v |-> v, handled |-> FALSE]
    ELSE LET first == dropListener(v, dragged, dropZone, time)
             rest == DispatchDrop(first.v,
                                  IF dropZone # NULL /\ dragged # NULL
                                  THEN DroppedRef(v, dragged, dropZone) ELSE dragged,
                                  dropZone, time, n - 1)
         IN [v |-> rest.v, handled |-> first.handled \/ rest.handled]

RECURSIVE DispatchDragEnd(_, _)
\* a dragend event on the dragged element: handleDragEnd once per listener
DispatchDragEnd(dragged, n) ==
    IF n = 0 THEN dragged ELSE DispatchDragEnd(clearDraggedElement(dragged), n - 1)

----------------------------------------------------------------------------
(* tools.js *)

\* tools.js returnTool(toolElement): restores the first element of the document
\* that carries the same tool name and number
returnTool(v, r) ==
    IF r = NULL THEN [v |-> v, ret |-> FALSE]
    ELSE LET e == ElemAt(v, r)
             originalTool == QueryTool(v, e.name, e.num)
         IN IF originalTool = NULL THEN [v |-> v, ret |-> FALSE]
            ELSE LET o == ElemAt(v, originalTool)
                     w == SetElem(v, originalTool,
                                  [o EXCEPT !.out = FALSE, !.hidden = FALSE,
                                            !.time = "", !.crew = 0])
                 IN [v |-> UpdateStackOf(w, originalTool), ret |-> TRUE]

\* crews.js handleReturnTool: the Return control of row k of crew c
handleReturnTool(v, c, k) ==
    LET checkoutItem == v.zones[c][k]
        originalTool == QueryTool(v, checkoutItem.tool, checkoutItem.num)
        res == returnTool(v, originalTool)
    IN IF res.ret
       THEN [res.v EXCEPT !.zones[c] = SeqFilterOut(@, k)]
       ELSE res.v

\* the elements matched by querySelectorAll('.draggable.checked-out')
CheckedOutRefs(v) ==
    LET refs == AllRefs(v) IN SelectSeq(refs, LAMBDA r : ElemAt(v, r).out)

RECURSIVE ReturnEach(_, _, _)
\* tools.js returnAllTools, lines 305-309: returnTool on each checked-out element
ReturnEach(v, refs, count) ==
    IF refs = <<>> THEN [v |-> v, count |-> count]
    ELSE LET res == returnTool(v, Head(refs))
         IN ReturnEach(res.v, Tail(refs), IF res.ret THEN count + 1 ELSE count)

\* tools.js returnAllTools
returnAllTools(v) ==
    LET res == ReturnEach(v, CheckedOutRefs(v), 0)
    IN [v |-> [res.v EXCEPT !.zones = [c \in Crews |-> <<>>]], count |-> res.count]

\* crews.js clearAllCheckouts: empty every crew drop zone
clearAllCheckouts(v) == [v EXCEPT !.zones = [c \in DOMAIN v.zones |-> <<>>]]

RECURSIVE RenderTools(_, _, _)
\* tools.js initializeInventory, lines 188-190: one createToolStack per definition
RenderTools(v, tools, poolId) ==
    IF tools = <<>> THEN v
    ELSE RenderTools(createToolStack(v, Head(tools), poolId), Tail(tools), poolId)

RECURSIVE RenderCategories(_, _, _)
RenderCategories(v, inv, cats) ==
    IF cats = <<>> THEN v
    ELSE RenderCategories(RenderTools(v, inv[Head(cats)], POOL_IDS[Head(cats)]),
                          inv, Tail(cats))

\* tools.js initializeInventory: clear every pool but the broken pool, then
\* render the Application State inventory
initializeInventory(v, inv) ==
    LET cleared == [v EXCEPT !.pools =
                       [p \in PoolIds |-> IF p # "brokenPool" THEN <<>> ELSE v.pools[p]]]
    IN RenderCategories(cleared, inv, CategoryOrder)

\* tools.js getCheckoutData: read the checkout records back from the rows
getCheckoutData(v) ==
    LET crewsWithItems == SelectSeq([c \in 1..NumCrews |-> c],
                                    LAMBDA c : Len(v.zones[c]) > 0)
    IN [k \in 1..Len(crewsWithItems) |->
           LET c == crewsWithItems[k] IN
           [crew |-> c,
            tools |-> [i \in 1..Len(v.zones[c]) |->
                          [tool |-> v.zones[c][i].tool, number |-> v.zones[c][i].num,
                           crew |-> c, time |-> v.zones[c][i].time]]]]

\* tools.js getBrokenToolsData: every draggable inside the broken pool
getBrokenToolsData(v) ==
    LET refs == PoolRefs(v, "brokenPool")
    IN [k \in 1..Len(refs) |->
           [name |-> ElemAt(v, refs[k]).name, number |-> ElemAt(v, refs[k]).num]]

\* the checkout entries of a snapshot in the order loadCheckouts visits them
CheckoutEntries(checkoutsData) ==
    Flatten([k \in 1..Len(checkoutsData) |->
                [i \in 1..Len(checkoutsData[k].tools) |->
                    [crew |-> checkoutsData[k].crew,
                     tool |-> checkoutsData[k].tools[i].tool,
                     number |-> checkoutsData[k].tools[i].number,
                     time |-> checkoutsData[k].tools[i].time]]])

RECURSIVE LoadEach(_, _, _)
\* crews.js loadCheckouts, lines 255-288.  For an element that lies in a stack the
\* body reaches require('./tools.js'), which an ES module in the browser does not
\* define: a ReferenceError leaves the loop after the element and its row have
\* been written and before the stack count is updated.
LoadEach(v, entries, loadedCount) ==
    IF entries = <<>> THEN [v |-> v, threw |-> FALSE, loadedCount |-> loadedCount]
    ELSE LET x == Head(entries)
             originalTool == QueryTool(v, x.tool, x.number)
         IN IF originalTool = NULL \/ x.crew \notin DOMAIN v.zones
            THEN LoadEach(v, Tail(entries), loadedCount)
            ELSE LET o == ElemAt(v, originalTool)
                     checkoutItem ==
                         createCheckoutItem(x.tool, x.number,
                                            IF x.time = "" THEN "N/A" ELSE x.time, x.crew)
                     w == SetElem(v, originalTool,
                                  [o EXCEPT !.out = TRUE, !.hidden = TRUE,
                                            !.time = x.time, !.crew = x.crew])
                     w2 == [w EXCEPT !.zones[x.crew] = Append(@, checkoutItem)]
                 IN IF InStack(originalTool)
                    THEN [v |-> w2, threw |-> TRUE, loadedCount |-> loadedCount]
                    ELSE LoadEach(w2, Tail(entries), loadedCount + 1)

\* crews.js loadCheckouts
loadCheckouts(v, checkoutsData) == LoadEach(v, CheckoutEntries(checkoutsData), 0)

RECURSIVE loadBrokenTools(_, _)
\* main.js loadBrokenTools: tag and move the first match of every broken entry
loadBrokenTools(v, brokenData) ==
    IF brokenData = <<>> THEN v
    ELSE LET toolElement == QueryTool(v, Head(brokenData).name, Head(brokenData).number)
             w == IF toolElement = NULL THEN v
                  ELSE AppendTo(v, toolElement,
                                [ElemAt(v, toolElement) EXCEPT !.broken = TRUE],
                                "brokenPool")
         IN loadBrokenTools(w, Tail(brokenData))

\* name.length of the names the Add Tool form is given
NameLength(name) ==
    CASE name = "" -> 0
      [] name = " " -> 1
      [] name = "Level" -> 5
      [] name = "Claw Hammer" -> 11

\* name.trim() of the names the Add Tool form is given
Trim(name) == IF name = " " THEN "" ELSE name

\* validateTool without the upper bound of the quantity
validateToolNoMax(name, quantity) ==
    (IF name = "" \/ NameLength(Trim(name)) < MIN_TOOL_NAME_LENGTH
     THEN <<"Tool name is required">>
     ELSE <<>>)
    \o
    (IF quantity < MIN_QUANTITY THEN <<"Quantity must be at least MIN">> ELSE <<>>)

\* tools.js validateTool: the list of error messages (the quantities of the
\* model are integers, so the 'must be a number' branch is never taken)
validateTool(name, quantity) ==
    (IF name = "" \/ NameLength(Trim(name)) < MIN_TOOL_NAME_LENGTH
     THEN <<"Tool name is required">>
     ELSE IF NameLength(name) > MAX_TOOL_NAME_LENGTH
          THEN <<"Tool name must be less than MAX characters">>
          ELSE <<>>)
    \o
    (IF quantity < MIN_QUANTITY THEN <<"Quantity must be at least MIN">>
     ELSE IF quantity > MAX_QUANTITY THEN <<"Quantity cannot exceed MAX">>
          ELSE <<>>)

\* state.js AppState.toggleStack
StateToggleStack(expanded, toolName) ==
    IF toolName \in expanded THEN expanded \ {toolName} ELSE expanded \cup {toolName}

\* AppState.addTool with unshift for push: the definition put first in the list
StateAddToolFront(inv, category, tool) ==
    IF category \in DOMAIN inv
    THEN [inv EXCEPT ![category] = <<tool>> \o @]
    ELSE [c \in DOMAIN inv \cup {category} |->
             IF c = category THEN <<tool>> ELSE inv[c]]

\* state.js AppState.addTool: push the definition on its category's list
StateAddTool(inv, category, tool) ==
    IF category \in DOMAIN inv
    THEN [inv EXCEPT ![category] = Append(@, tool)]
    ELSE [c \in DOMAIN inv \cup {category} |->
             IF c = category THEN <<tool>> ELSE inv[c]]

\* tools.js addTool: validate, add to the Application State, render the new stack
addTool(v, inv, name, category, quantity) ==
    LET errors == validateTool(name, quantity) IN
    IF errors # <<>>
    THEN [v |-> v, inv |-> inv, success |-> FALSE, errors |-> errors]
    ELSE LET newTool == [name |-> Trim(name), qty |-> quantity,
                         class |-> CATEGORY_CLASSES[category]]
         IN [v |-> createToolStack(v, newTool, POOL_IDS[category]),
             inv |-> StateAddTool(inv, category, newTool),
             success |-> TRUE, errors |-> <<>>]

----------------------------------------------------------------------------
(* state.js: the AppState object and the objects it shares with its callers *)

\* The heap is the sequence of the objects alive, an object reference being an
\* index of it (0: no object).  An inventory object holds, per category, the
\* list of the references of its tool objects; a tool object holds the fields
\* of a Tool Definition; a Set object holds tool names.
InvObject(lists) == [kind |-> "inv", lists |-> lists]
ToolObject(val) == [kind |-> "tool", val |-> val]
SetObject(elems) == [kind |-> "set", elems |-> elems]

\* the observers of the model, and the one whose callback throws
Observers == 1..NumObservers
Throws(listener) == listener = 2

RECURSIVE AllocTools(_, _)
\* new tool objects holding the values of vals: the heap and their references
AllocTools(h, vals) ==
    IF vals = <<>> THEN [h |-> h, ids |-> <<>>]
    ELSE LET r == AllocTools(Append(h, ToolObject(Head(vals))), Tail(vals))
         IN [h |-> r.h, ids |-> <<Len(h) + 1>> \o r.ids]

RECURSIVE AllocLists(_, _, _, _)
AllocLists(h, value, cats, lists) ==
    IF cats = <<>> THEN [h |-> h, lists |-> lists]
    ELSE LET r == AllocTools(h, value[Head(cats)])
         IN AllocLists(r.h, value, Tail(cats), [lists EXCEPT ![Head(cats)] = r.ids])

\* the plain value of the inventory object at id (what JSON.stringify writes)
InventoryValue(h, id) ==
    [c \in DOMAIN h[id].lists |->
        [i \in 1..Len(h[id].lists[c]) |-> h[h[id].lists[c][i]].val]]

\* a new inventory object, with new tool objects, holding the value
AllocInventory(h, value) ==
    LET r == AllocLists(h, value, CategoryOrder, [c \in Categories |-> <<>>])
    IN [h |-> Append(r.h, InvObject(r.lists)), id |-> Len(r.h) + 1]

\* deepClone returning the object itself
deepCloneSame(h, id) == [h |-> h, id |-> id]

\* state.js deepClone: JSON.parse(JSON.stringify(obj)) of the inventory object at id
deepClone(h, id) == AllocInventory(h, InventoryValue(h, id))

\* new Set(iterable) of the Set object at id
NewSet(h, elems) == [h |-> Append(h, SetObject(elems)), id |-> Len(h) + 1]

\* state.js constructor: this.state and this.listeners; seen[l] is the state
\* observer l was last passed since it subscribed, handle the reference the
\* caller holds (0: none)
NewAppState ==
    LET i == AllocInventory(<<>>, DEFAULT_TOOL_INVENTORY)
        s == NewSet(i.h, {})
    IN [heap |-> s.h, toolInventory |-> i.id, expandedStacks |-> s.id,
        draggedElement |-> NULL, lastUpdateTime |-> NULL,
        listeners |-> <<>>, seen |-> [l \in Observers |-> NULL], handle |-> 0]

\* the plain value of the record getState returns
StateValue(a) ==
    [toolInventory |-> InventoryValue(a.heap, a.toolInventory),
     expandedStacks |-> a.heap[a.expandedStacks].elems,
     draggedElement |-> a.draggedElement,
     lastUpdateTime |-> a.lastUpdateTime]

RECURSIVE NotifyEachNoCatch(_, _, _)
\* the forEach of notifyListeners without its try / catch: the first exception
\* ends the loop and leaves the call
NotifyEachNoCatch(a, ls, notified) ==
    IF ls = <<>> THEN [a |-> a, notified |-> notified, threw |-> FALSE]
    ELSE LET listener == Head(ls)
             b == [a EXCEPT !.seen[listener] = StateValue(a)]
             n == Append(notified, [listener |-> listener, state |-> StateValue(a)])
         IN IF Throws(listener) THEN [a |-> b, notified |-> n, threw |-> TRUE]
            ELSE NotifyEachNoCatch(b, Tail(ls), n)

notifyListenersNoCatch(a) == NotifyEachNoCatch(a, a.listeners, <<>>)

RECURSIVE NotifyEach(_, _, _)
\* state.js notifyListeners, lines 164-170: listener(this.getState()) for every
\* listener in the Set's insertion order, an exception being caught and logged
NotifyEach(a, ls, notified) ==
    IF ls = <<>> THEN [a |-> a, notified |-> notified, threw |-> FALSE]
    ELSE LET listener == Head(ls)
             b == [a EXCEPT !.seen[listener] = StateValue(a)]
             n == Append(notified, [listener |-> listener, state |-> StateValue(a)])
         IN NotifyEach(b, Tail(ls), n)

\* state.js notifyListeners
notifyListeners(a) == NotifyEach(a, a.listeners, <<>>)

\* this.state = {...this.state, ...updates}
Assign(a, updates) ==
    [f \in DOMAIN a |-> IF f \in DOMAIN updates THEN updates[f] ELSE a[f]]

\* setState with the notification before the assignment
setStateNotifyFirst(a, updates) ==
    LET r == notifyListeners(a)
    IN [a |-> Assign(r.a, updates), notified |-> r.notified, threw |-> r.threw]

\* state.js setState
setState(a, updates) == notifyListeners(Assign(a, updates))

\* state.js getInventory: the heap and the reference returned
AppState_getInventory(a) == deepClone(a.heap, a.toolInventory)

\* state.js getExpandedStacks: the heap and the reference returned
AppState_getExpandedStacks(a) == NewSet(a.heap, a.heap[a.expandedStacks].elems)

\* state.js getState: the heap and the fields of the record returned
AppState_getState(a) ==
    LET c == deepClone(a.heap, a.toolInventory)
        s == NewSet(c.h, a.heap[a.expandedStacks].elems)
    IN [h |-> s.h, toolInventory |-> c.id, expandedStacks |-> s.id,
        draggedElement |-> a.draggedElement, lastUpdateTime |-> a.lastUpdateTime]

\* state.js setInventory(inventory), inventory being the object at ref
AppState_setInventory(a, ref) ==
    LET c == deepClone(a.heap, ref)
    IN setState([a EXCEPT !.heap = c.h], [toolInventory |-> c.id])

\* state.js addTool(category, tool), tool being the object at ref
AppState_addTool(a, category, ref) ==
    LET c == deepClone(a.heap, a.toolInventory)
        h == [c.h EXCEPT ![c.id].lists[category] = Append(@, ref)]
    IN AppState_setInventory([a EXCEPT !.heap = h], c.id)

\* state.js toggleStack
AppState_toggleStack(a, toolName) ==
    LET s == NewSet(a.heap, StateToggleStack(a.heap[a.expandedStacks].elems, toolName))
    IN setState([a EXCEPT !.heap = s.h], [expandedStacks |-> s.id])

\* state.js expandAllStacks
AppState_expandAllStacks(a, toolNames) ==
    LET s == NewSet(a.heap, toolNames)
    IN setState([a EXCEPT !.heap = s.h], [expandedStacks |-> s.id])

\* state.js collapseAllStacks
AppState_collapseAllStacks(a) == AppState_expandAllStacks(a, {})

\* state.js setDraggedElement / clearDraggedElement
AppState_setDraggedElement(a, element) == setState(a, [draggedElement |-> element])
AppState_clearDraggedElement(a) == setState(a, [draggedElement |-> NULL])

\* state.js setLastUpdateTime
AppState_setLastUpdateTime(a, time) == setState(a, [lastUpdateTime |-> time])

\* state.js reset
AppState_reset(a) ==
    LET i == AllocInventory(a.heap, DEFAULT_TOOL_INVENTORY)
        s == NewSet(i.h, {})
    IN notifyListeners([a EXCEPT !.heap = s.h, !.toolInventory = i.id,
                                 !.expandedStacks = s.id, !.draggedElement = NULL,
                                 !.lastUpdateTime = NULL])

\* state.js subscribe: Set.add keeps the place of a listener already in the Set
AppState_subscribe(a, listener) ==
    IF listener \in Range(a.listeners) THEN a
    ELSE [a EXCEPT !.listeners = Append(@, listener), !.seen[listener] = NULL]

\* the function subscribe returns: Set.delete
AppState_unsubscribe(a, listener) ==
    [a EXCEPT !.listeners = SelectSeq(@, LAMBDA l : l # listener),
              !.seen[listener] = NULL]

\* the references of the objects alive: those of this.state, then those the
\* caller holds, each once, in the order they are reached
RECURSIVE Dedup(_, _)
Dedup(s, acc) ==
    IF s = <<>> THEN acc
    ELSE Dedup(Tail(s), IF Head(s) \in Range(acc) THEN acc ELSE Append(acc, Head(s)))

InvRefs(h, id) ==
    <<id>> \o Flatten([k \in 1..Len(CategoryOrder) |-> h[id].lists[CategoryOrder[k]]])

Alive(a) ==
    Dedup(InvRefs(a.heap, a.toolInventory) \o <<a.expandedStacks>>
          \o (IF a.handle = 0 THEN <<>>
              ELSE IF a.heap[a.handle].kind = "inv" THEN InvRefs(a.heap, a.handle)
              ELSE <<a.handle>>), <<>>)

\* garbage collection: the heap holds the objects alive and no others
Collect(a) ==
    LET order == Alive(a)
        new(id) == IF id = 0 THEN 0 ELSE CHOOSE k \in 1..Len(order) : order[k] = id
        moved(o) == IF o.kind = "inv"
                    THEN InvObject([c \in DOMAIN o.lists |->
                                       [i \in 1..Len(o.lists[c]) |-> new(o.lists[c][i])]])
                    ELSE o
    IN [a EXCEPT !.heap = [k \in 1..Len(order) |-> moved(a.heap[order[k]])],
                 !.toolInventory = new(a.toolInventory),
                 !.expandedStacks = new(a.expandedStacks),
                 !.handle = new(a.handle)]

----------------------------------------------------------------------------
(* storage.js *)

\* CONFIG.STORAGE_KEYS and the history keys
SCHEDULE == <<"toolCheckoutSchedule", 0>>
DATE == <<"toolCheckoutDate", 0>>
UPDATE_TIME == <<"toolLastUpdateTime", 0>>
INVENTORY == <<"toolInventory", 0>>
HISTORY_INDEX == <<"toolHistoryIndex", 0>>
HistoryKey(dateKey) == <<"toolHistory_", dateKey>>

\* JSON.stringify / JSON.parse of the plain data the store is given
Stringify(value) == [json |-> value]
Parse(text) == text.json

\* the stored texts: JSON.parse accepts the texts JSON.stringify wrote and
\* throws a SyntaxError on the others; the empty string is falsy
WellFormed(text) == "json" \in DOMAIN text
MalformedText == [text |-> "{oops"]
EmptyText == [text |-> ""]

\* the JSON value {}; null and {} are the decoded values that are not arrays
\* and so lack includes, unshift, filter, map and reduce (the values are told
\* apart by their printed form, a list and a record not being comparable)
EmptyObject == [object |-> TRUE]
IsNull(value) == ToString(value) = ToString(NULL)
IsList(value) == ToString(value) \notin {ToString(NULL), ToString(EmptyObject)}

\* what a call that raised gives back
Raised == [raised |-> TRUE]

\* getItem without its try / catch: the SyntaxError of JSON.parse leaves the call
getItemNoCatch(st, key, defaultValue) ==
    IF ~isAvailable THEN defaultValue
    ELSE IF key \notin DOMAIN st.items \/ st.items[key] = EmptyText THEN defaultValue
    ELSE IF WellFormed(st.items[key]) THEN Parse(st.items[key])
    ELSE Raised

\* storage.js getItem: item ? JSON.parse(item) : defaultValue, the default
\* again when JSON.parse throws
getItem(st, key, defaultValue) ==
    IF ~isAvailable THEN defaultValue
    ELSE IF key \notin DOMAIN st.items \/ st.items[key] = EmptyText THEN defaultValue
    ELSE IF WellFormed(st.items[key]) THEN Parse(st.items[key])
    ELSE defaultValue

\* a handler that frees space by dropping the history
handleQuotaExceededEvicting(st) ==
    [st EXCEPT !.items = [k \in {j \in DOMAIN st.items : j[1] # "toolHistory_"} |->
                             st.items[k]]]

\* storage.js handleQuotaExceeded: a console warning and nothing else
handleQuotaExceeded(st) == st

\* setItem without the availability test of line 60
setItemUnguarded(st, key, value) ==
    IF st.budget = 0 THEN [st |-> st, ret |-> FALSE]
    ELSE [st |-> [items |-> [k \in DOMAIN st.items \cup {key} |->
                                IF k = key THEN Stringify(value) ELSE st.items[k]],
                  budget |-> IF st.budget > 0 THEN st.budget - 1 ELSE st.budget],
          ret |-> TRUE]

\* storage.js setItem: false when the store is unavailable or the write throws
\* (quota exceeded: st.budget counts the writes the store still accepts, a
\* negative budget being no limit)
setItem(st, key, value) ==
    IF ~isAvailable THEN [st |-> st, ret |-> FALSE]
    ELSE IF st.budget = 0 THEN [st |-> handleQuotaExceeded(st), ret |-> FALSE]
    ELSE [st |-> [items |-> [k \in DOMAIN st.items \cup {key} |->
                                IF k = key THEN Stringify(value) ELSE st.items[k]],
                  budget |-> IF st.budget > 0 THEN st.budget - 1 ELSE st.budget],
          ret |-> TRUE]

\* storage.js removeItem
removeItem(st, key) ==
    IF ~isAvailable THEN [st |-> st, ret |-> FALSE]
    ELSE [st |-> [st EXCEPT !.items = [k \in DOMAIN st.items \ {key} |-> st.items[k]]],
          ret |-> TRUE]

\* storage.js clear
clear(st) ==
    IF ~isAvailable THEN [st |-> st, ret |-> FALSE]
    ELSE [st |-> [st EXCEPT !.items = <<>>], ret |-> TRUE]

\* storage.js getCurrentDateString: new Date().toDateString() on day d
getCurrentDateString(d) == [fmt |-> "toDateString", day |-> d]

\* storage.js getDateKey: the YYYY-MM-DD key of day d (keys order as days do)
getDateKey(d) == d

\* storage.js getYesterdayKey
getYesterdayKey(d) == getDateKey(d - 1)

\* isToday without the comparison with the current date: any stored marker passes
isTodayAnyMarker(st, d) == getItem(st, DATE, NULL) # NULL

\* storage.js isToday
isToday(st, d) == getItem(st, DATE, NULL) = getCurrentDateString(d)

\* storage.js saveSchedule
StorageSaveSchedule(st, scheduleData, d) ==
    LET r1 == setItem(st, SCHEDULE, scheduleData) IN
    IF r1.ret
    THEN [st |-> setItem(r1.st, DATE, getCurrentDateString(d)).st, ret |-> TRUE]
    ELSE [st |-> r1.st, ret |-> FALSE]

\* storage.js loadSchedule
StorageLoadSchedule(st, d) ==
    IF ~isToday(st, d) THEN NULL ELSE getItem(st, SCHEDULE, NULL)

\* storage.js saveUpdateTime / loadUpdateTime
saveUpdateTime(st, timeString) == setItem(st, UPDATE_TIME, timeString)
loadUpdateTime(st) == getItem(st, UPDATE_TIME, NULL)

\* storage.js saveInventory / loadInventory
saveInventory(st, inv) == setItem(st, INVENTORY, inv)
loadInventory(st) == getItem(st, INVENTORY, NULL)

RECURSIVE RemoveEntries(_, _)
\* storage.js updateHistoryIndex, lines 298-300: remove the records of the
\* keys cut off the index
RemoveEntries(st, removed) ==
    IF removed = <<>> THEN st
    ELSE RemoveEntries(removeItem(st, HistoryKey(Head(removed))).st, Tail(removed))

\* updateHistoryIndex without lines 295-301: the index is never cut
updateHistoryIndexUncut(st, dateKey) ==
    LET index == getItem(st, HISTORY_INDEX, <<>>) IN
    IF ~IsList(index) THEN [st |-> st, threw |-> TRUE]
    ELSE IF dateKey \in Range(index) THEN [st |-> st, threw |-> FALSE]
    ELSE [st |-> setItem(st, HISTORY_INDEX, <<dateKey>> \o index).st, threw |-> FALSE]

\* storage.js updateHistoryIndex: no try / catch, so the TypeError of
\* index.includes on a stored index that is not a list leaves the call
updateHistoryIndex(st, dateKey) ==
    LET index == getItem(st, HISTORY_INDEX, <<>>) IN
    IF ~IsList(index) THEN [st |-> st, threw |-> TRUE]
    ELSE IF dateKey \in Range(index) THEN [st |-> st, threw |-> FALSE]
    ELSE LET unshifted == <<dateKey>> \o index
             kept == IF Len(unshifted) > HistoryCap
                     THEN SubSeq(unshifted, 1, HistoryCap) ELSE unshifted
             removed == IF Len(unshifted) > HistoryCap
                        THEN SubSeq(unshifted, HistoryCap + 1, Len(unshifted))
                        ELSE <<>>
         IN [st |-> setItem(RemoveEntries(st, removed), HISTORY_INDEX, kept).st,
             threw |-> FALSE]

\* storage.js saveToHistory: dateKey 0 stands for the absent argument
saveToHistory(st, scheduleData, dateKey, d) ==
    LET key == IF dateKey = 0 THEN getDateKey(d) ELSE dateKey
        historyEntry == [f \in DOMAIN scheduleData \cup {"savedAt", "dateKey"} |->
                            IF f = "savedAt" THEN d
                            ELSE IF f = "dateKey" THEN key
                            ELSE scheduleData[f]]
        r == setItem(st, HistoryKey(key), historyEntry)
    IN IF r.ret
       THEN LET u == updateHistoryIndex(r.st, key)
            IN [st |-> u.st, ret |-> ~u.threw, threw |-> u.threw]
       ELSE [st |-> r.st, ret |-> FALSE, threw |-> FALSE]

\* storage.js getHistoryDates
getHistoryDates(st) == getItem(st, HISTORY_INDEX, <<>>)

\* storage.js loadFromHistory
loadFromHistory(st, dateKey) == getItem(st, HistoryKey(dateKey), NULL)

\* storage.js loadYesterday
StorageLoadYesterday(st, d) == loadFromHistory(st, getYesterdayKey(d))

\* storage.js deleteHistoryEntry: index.filter on a stored index that is not a
\* list is a TypeError
deleteHistoryEntry(st, dateKey) ==
    LET r == removeItem(st, HistoryKey(dateKey)) IN
    IF r.ret
    THEN LET index == getItem(r.st, HISTORY_INDEX, <<>>)
         IN IF ~IsList(index) THEN [st |-> r.st, ret |-> FALSE, threw |-> TRUE]
            ELSE [st |-> setItem(r.st, HISTORY_INDEX,
                                 SelectSeq(index, LAMBDA k : k # dateKey)).st,
                  ret |-> TRUE, threw |-> FALSE]
    ELSE [st |-> r.st, ret |-> FALSE, threw |-> FALSE]

RECURSIVE SumTools(_)
\* storage.js getHistorySummary, line 382: the reduce over the crews
SumTools(checkouts) ==
    IF checkouts = <<>> THEN 0
    ELSE Len(Head(checkouts).tools) + SumTools(Tail(checkouts))

\* storage.js getHistorySummary, lines 382-384: entry.checkouts?.reduce is a
\* TypeError when checkouts is not a list, crew.tools.length when a crew has no tools
SummaryThrows(entry) ==
    /\ "checkouts" \in DOMAIN entry
    /\ ~IsNull(entry.checkouts)
    /\ \/ ~IsList(entry.checkouts)
       \/ \E i \in 1..Len(entry.checkouts) : "tools" \notin DOMAIN entry.checkouts[i]

\* storage.js getHistorySummary: dates.map on a stored index that is not a list
\* is a TypeError
getHistorySummary(st) ==
    LET dates == getHistoryDates(st) IN
    IF ~IsList(dates) THEN [value |-> <<>>, threw |-> TRUE]
    ELSE LET found == SelectSeq(dates, LAMBDA k : loadFromHistory(st, k) # NULL)
         IN IF \E i \in 1..Len(found) : SummaryThrows(loadFromHistory(st, found[i]))
            THEN [value |-> <<>>, threw |-> TRUE]
            ELSE [value |->
                     [i \in 1..Len(found) |->
                        LET entry == loadFromHistory(st, found[i])
                            has(f) == f \in DOMAIN entry /\ ~IsNull(entry[f])
                        IN [dateKey |-> found[i],
                            savedAt |-> IF "savedAt" \in DOMAIN entry
                                        THEN entry.savedAt ELSE NULL,
                            toolCount |-> IF has("checkouts")
                                          THEN SumTools(entry.checkouts) ELSE 0,
                            crewCount |-> IF has("checkouts")
                                          THEN Len(entry.checkouts) ELSE 0,
                            brokenCount |-> IF has("broken")
                                            THEN Len(entry.broken) ELSE 0]],
                  threw |-> FALSE]

----------------------------------------------------------------------------
(* ui.js (src/unnamed/part_002) and main.js *)

\* ui.js updateLastModifiedTime: the time string shown, stored and kept in the state
TimeString(d) == [fmt |-> "toLocaleString", day |-> d]
updateLastModifiedTime(st, d) == saveUpdateTime(st, TimeString(d)).st

\* the .btn-save element as the page is served: its label, its inline
\* background, no timer pending
SaveButton == [text |-> "Save", bg |-> "", timers |-> <<>>]

\* ui.js showSaveFeedback: the label and the background are read, the feedback
\* is shown, and a timer is set that writes back what was read; byTick tells
\* the call made by the autosave timer from the call made by a click
showSaveFeedback(btn, byTick) ==
    [text |-> "Saved!", bg |-> "#4A9D7E",
     timers |-> Append(btn.timers, [text |-> btn.text, bg |-> btn.bg, tick |-> byTick])]

\* ui.js showSaveFeedback, lines 185-188: the callback of the oldest pending timer
feedbackTimeout(btn) ==
    [text |-> Head(btn.timers).text, bg |-> Head(btn.timers).bg,
     timers |-> Tail(btn.timers)]

RECURSIVE ExpireOld(_)
\* CONFIG.AUTO_SAVE_INTERVAL (30000 ms) is longer than the feedback period
\* (2000 ms): when the autosave timer fires, the feedback timers set up to its
\* previous tick have fired, oldest first
ExpireOld(btn) ==
    IF \E i \in 1..Len(btn.timers) : btn.timers[i].tick
    THEN ExpireOld(feedbackTimeout(btn)) ELSE btn

\* the button after a tick of the autosave timer whose save gave success
TickButton(btn, success) ==
    IF success THEN showSaveFeedback(ExpireOld(btn), TRUE) ELSE ExpireOld(btn)

\* main.js saveSchedule, lines 162-168: the Schedule Snapshot read from the
\* Application State and from the view
ScheduleData(v, inv, d) ==
    [date |-> d, lastUpdate |-> d, inventory |-> inv,
     checkouts |-> getCheckoutData(v), broken |-> getBrokenToolsData(v)]

\* main.js saveSchedule: the today slot, then the history log, then the update time
MainSaveSchedule(v, inv, st, d) ==
    LET scheduleData == ScheduleData(v, inv, d)
        r == StorageSaveSchedule(st, scheduleData, d)
    IN IF r.ret
       THEN LET h == saveToHistory(r.st, scheduleData, 0, d)
            IN IF h.threw  \* caught at lines 185-188, the update time not written
               THEN [st |-> h.st, success |-> FALSE, history |-> FALSE]
               ELSE [st |-> updateLastModifiedTime(h.st, d), success |-> TRUE,
                     history |-> h.ret]
       ELSE [st |-> r.st, success |-> FALSE, history |-> FALSE]

\* main.js loadHistoryData, lines 375-395 (the same steps as loadSchedule, lines
\* 205-224): inventory, crew cards, checkouts, broken tools, drag events; an
\* error leaves the handler before the drag events are set up
LoadData(v, inv, data) ==
    LET v1 == initializeInventory(v, data.inventory)
        v2 == createCrewCards(v1)
        r == loadCheckouts(v2, data.checkouts)
    IN IF r.threw
       THEN [v |-> r.v, inv |-> data.inventory, outcome |-> "error"]
       ELSE [v |-> setupDragEvents(loadBrokenTools(r.v, data.broken)),
             inv |-> data.inventory, outcome |-> "loaded"]

\* main.js loadSchedule: nothing when the today slot is absent or stale
MainLoadSchedule(v, inv, st, d) ==
    LET schedule == StorageLoadSchedule(st, d) IN
    IF schedule = NULL THEN [v |-> v, inv |-> inv, outcome |-> "none"]
    ELSE LoadData(v, inv, schedule)

\* main.js clearAllCheckouts, lines 260-269, after the confirmation: the rows
\* emptied, the tools returned, the view rendered again from the Application
\* State inventory, which the handler does not write, the drag events set up
MainClearAllCheckouts(v, inv) ==
    [v |-> setupDragEvents(createCrewCards(
               initializeInventory(returnAllTools(clearAllCheckouts(v)).v, inv))),
     inv |-> inv]

\* the page as served: empty pools, no crew cards, no listener on the document,
\* and drag.js's globalEventsSetup as the module sets it (line 18)
EmptyDocument ==
    [pools |-> [p \in PoolIds |-> <<>>], zones |-> <<>>, listeners |-> <<>>,
     globalEventsSetup |-> FALSE]

\* main.js init, lines 53-59: the inventory and the crew cards rendered, the
\* drag events set up
InitialView(inv) ==
    setupDragEvents(createCrewCards(initializeInventory(EmptyDocument, inv)))

\* the broken pool holds no more elements than the model follows
BrokenBound(v) == Len(v.pools["brokenPool"]) <= MaxBroken

\* number of Tool Definitions of an inventory
DefinitionCount(inv) ==
    Len(Flatten([k \in 1..Len(CategoryOrder) |-> inv[CategoryOrder[k]]]))

----------------------------------------------------------------------------
(* The view specification *)

Init ==
    /\ inventory = DEFAULT_TOOL_INVENTORY
    /\ draggedElement = NULL
    /\ lastUpdateTime = NULL
    /\ expandedStacks = {}
    /\ view = InitialView(DEFAULT_TOOL_INVENTORY)
    /\ store = [items |-> <<>>, budget |-> -1]
    /\ isAvailable = TRUE
    /\ today = 1
    /\ hlog = [saves |-> 0, saved |-> {}, deleted |-> {}, rejected |-> FALSE]
    /\ app = NewAppState
    /\ autoSaveInterval = TRUE
    /\ touchItem = NULL
    /\ saveBtn = SaveButton

\* the page is (re)loaded: state.js constructor, main.js init
PageLoad ==
    LET r == MainLoadSchedule(InitialView(DEFAULT_TOOL_INVENTORY),
                              DEFAULT_TOOL_INVENTORY, store, today)
    IN /\ inventory' = r.inv
       /\ view' = r.v
       /\ draggedElement' = NULL
       /\ lastUpdateTime' = NULL
       /\ expandedStacks' = {}
       /\ autoSaveInterval' = TRUE
       /\ touchItem' = NULL
       /\ saveBtn' = SaveButton
       /\ UNCHANGED <<store, isAvailable, today, hlog, app>>

\* a dragstart event on a draggable tool element: drag.js handleDragStart, when
\* setupDragEvents has put it on the element
DragStart(r) ==
    /\ draggedElement = NULL
    /\ CanDrag(view, r)
    /\ draggedElement' = DispatchDragStart(view, draggedElement, r,
                                           ListenerCount(ElemAt(view, r).on, "dragstart"))
    /\ UNCHANGED <<inventory, lastUpdateTime, view, store, isAvailable, today, hlog,
                   expandedStacks, app, autoSaveInterval, touchItem, saveBtn>>

\* drag.js drop listener (lines 233-248) and handleDrop, then handleDragEnd
DropEnd(dropZone, time) ==
    /\ draggedElement # NULL
    /\ touchItem = NULL
    /\ LET dropped == DispatchDrop(view, draggedElement, dropZone, time,
                                   ListenerCount(view.listeners, "drop"))
       IN /\ view' = dropped.v
          /\ BrokenBound(view')
          /\ IF dropped.handled
             THEN /\ store' = updateLastModifiedTime(store, today)
                  /\ lastUpdateTime' = TimeString(today)
             ELSE UNCHANGED <<store, lastUpdateTime>>
    /\ draggedElement' =
          DispatchDragEnd(draggedElement,
                          ListenerCount(ElemAt(view, draggedElement).on, "dragend"))
    /\ UNCHANGED <<inventory, isAvailable, today, hlog, expandedStacks, app, autoSaveInterval,
                   touchItem, saveBtn>>

\* drag.js handleDragEnd after a drag that ended on no drop target
DragCancel ==
    /\ draggedElement # NULL
    /\ touchItem = NULL
    /\ draggedElement' =
          DispatchDragEnd(draggedElement,
                          ListenerCount(ElemAt(view, draggedElement).on, "dragend"))
    /\ UNCHANGED <<inventory, lastUpdateTime, view, store, isAvailable, today, hlog,
                   expandedStacks, app, autoSaveInterval, touchItem, saveBtn>>

\* a touchstart event on a tool element, with no pointer drag under way: drag.js
\* handleTouchStart, when setupDragEvents has put it on the element (a function
\* is on an element once, so it runs once)
TouchStart(r) ==
    /\ draggedElement = NULL \/ touchItem # NULL
    /\ CanDrag(view, r)
    /\ LET s == IF ListenerCount(ElemAt(view, r).on, "touchstart") = 0
                THEN [draggedElement |-> draggedElement, touchItem |-> touchItem]
                ELSE handleTouchStart(view, draggedElement, touchItem, r)
       IN /\ draggedElement' = s.draggedElement
          /\ touchItem' = s.touchItem
    /\ UNCHANGED <<inventory, lastUpdateTime, view, store, isAvailable, today, hlog,
                   expandedStacks, app, autoSaveInterval, saveBtn>>

\* drag.js handleTouchEnd: the finger is lifted over dropZone, or over no zone (NULL)
TouchEnd(dropZone, time) ==
    /\ touchItem # NULL
    /\ ListenerCount(ElemAt(view, touchItem).on, "touchend") > 0
    /\ LET s == handleTouchEnd(view, draggedElement, touchItem, dropZone, time)
       IN /\ view' = s.v
          /\ BrokenBound(view')
          /\ draggedElement' = s.draggedElement
          /\ touchItem' = s.touchItem
          /\ IF s.handled
             THEN /\ store' = updateLastModifiedTime(store, today)
                  /\ lastUpdateTime' = TimeString(today)
             ELSE UNCHANGED <<store, lastUpdateTime>>
    /\ UNCHANGED <<inventory, isAvailable, today, hlog, expandedStacks, app,
                   autoSaveInterval, saveBtn>>

\* tools.js createToolStack, lines 95-124: a click on the stack that is child i
\* of pool p, outside its tool items
ToggleStackClick(p, i) ==
    /\ draggedElement = NULL
    /\ i \in 1..Len(view.pools[p])
    /\ view.pools[p][i].kind = "stack"
    /\ ~view.pools[p][i].hidden
    /\ view' = toggleStack(view, p, i)
    /\ expandedStacks' = StateToggleStack(expandedStacks, view.pools[p][i].name)
    /\ UNCHANGED <<inventory, draggedElement, lastUpdateTime, store, isAvailable,
                   today, hlog, app, autoSaveInterval, touchItem, saveBtn>>

\* crews.js: click on the Return control of row k of crew c
ReturnClick(c, k) ==
    /\ draggedElement = NULL
    /\ k \in 1..Len(view.zones[c])
    /\ view' = handleReturnTool(view, c, k)
    /\ UNCHANGED <<inventory, draggedElement, lastUpdateTime, store, isAvailable,
                   today, hlog, expandedStacks, app, autoSaveInterval, touchItem, saveBtn>>

\* a dialog that takes every answer for a yes
confirmDialogAlways(answer) == TRUE

\* ui.js confirmDialog: the answer the user gives to confirm(message)
confirmDialog(answer) == answer

\* main.js returnAllTools: the Return All button and its confirmation
ReturnAllClick(confirmed) ==
    /\ draggedElement = NULL
    /\ IF confirmDialog(confirmed)
       THEN LET res == returnAllTools(view)
            IN /\ view' = res.v
               /\ store' = updateLastModifiedTime(store, today)
               /\ lastUpdateTime' = TimeString(today)
       ELSE UNCHANGED <<view, store, lastUpdateTime>>
    /\ UNCHANGED <<inventory, draggedElement, isAvailable, today, hlog, expandedStacks,
                   app, autoSaveInterval, touchItem, saveBtn>>

\* main.js clearAllCheckouts: the Clear button and its confirmation
ClearClick(confirmed) ==
    /\ draggedElement = NULL
    /\ IF confirmDialog(confirmed)
       THEN /\ view' = MainClearAllCheckouts(view, inventory).v
            /\ inventory' = MainClearAllCheckouts(view, inventory).inv
            /\ store' = updateLastModifiedTime(store, today)
            /\ lastUpdateTime' = TimeString(today)
       ELSE UNCHANGED <<view, inventory, store, lastUpdateTime>>
    /\ UNCHANGED <<draggedElement, isAvailable, today, hlog, expandedStacks,
                   app, autoSaveInterval, touchItem, saveBtn>>

\* ui.js handleAddNewTool: the Add Tool form submitted with the text of the
\* name field and the number of the quantity field
AddToolClick(name, category, quantity) ==
    /\ draggedElement = NULL
    /\ LET result == addTool(view, inventory, Trim(name), category, quantity)
       IN /\ DefinitionCount(result.inv) <= DefinitionCount(DEFAULT_TOOL_INVENTORY) + MaxAdds
          /\ view' = IF result.success THEN setupDragEvents(result.v) ELSE result.v
          /\ inventory' = result.inv
          /\ IF result.success
             THEN /\ store' = updateLastModifiedTime(store, today)
                  /\ lastUpdateTime' = TimeString(today)
                  /\ UNCHANGED hlog
             ELSE /\ hlog' = [hlog EXCEPT !.rejected = TRUE]
                  /\ UNCHANGED <<store, lastUpdateTime>>
    /\ UNCHANGED <<draggedElement, isAvailable, today, expandedStacks, app, autoSaveInterval,
                   touchItem, saveBtn>>

\* main.js saveSchedule: the Save button, or a tick of the autosave timer
Save ==
    LET r == MainSaveSchedule(view, inventory, store, today)
    IN /\ hlog.saves < MaxSaves
       /\ store' = r.st
       /\ lastUpdateTime' = IF r.success THEN TimeString(today) ELSE lastUpdateTime
       /\ hlog' = [hlog EXCEPT !.saves = @ + 1,
                               !.saved = IF r.history THEN @ \cup {getDateKey(today)}
                                         ELSE @]
       /\ saveBtn' = IF r.success THEN showSaveFeedback(saveBtn, FALSE) ELSE saveBtn
       /\ UNCHANGED <<inventory, draggedElement, view, isAvailable, today, expandedStacks,
                      app, autoSaveInterval, touchItem>>

\* main.js loadYesterday: the Load Yesterday button and its confirmation
LoadYesterdayClick(confirmed) ==
    /\ draggedElement = NULL
    /\ LET yesterdayData == StorageLoadYesterday(store, today)
       IN IF yesterdayData # NULL /\ confirmDialog(confirmed)
          THEN LET r == LoadData(view, inventory, yesterdayData)
               IN /\ view' = r.v
                  /\ inventory' = r.inv
                  /\ BrokenBound(view')
          ELSE UNCHANGED <<view, inventory>>
    /\ UNCHANGED <<draggedElement, lastUpdateTime, store, isAvailable, today, hlog,
                   expandedStacks, app, autoSaveInterval, touchItem, saveBtn>>

\* main.js loadHistoryByDate: a date chosen in the history list and the
\* confirmation
LoadHistoryByDateClick(dateKey, confirmed) ==
    /\ draggedElement = NULL
    /\ LET historyData == loadFromHistory(store, dateKey)
       IN IF historyData # NULL /\ confirmDialog(confirmed)
          THEN LET r == LoadData(view, inventory, historyData)
               IN /\ view' = r.v
                  /\ inventory' = r.inv
                  /\ BrokenBound(view')
          ELSE UNCHANGED <<view, inventory>>
    /\ UNCHANGED <<draggedElement, lastUpdateTime, store, isAvailable, today, hlog,
                   expandedStacks, app, autoSaveInterval, touchItem, saveBtn>>

\* midnight passes
AdvanceDay ==
    /\ today < MaxDay
    /\ today' = today + 1
    /\ UNCHANGED <<inventory, draggedElement, lastUpdateTime, view, store,
                   isAvailable, hlog, expandedStacks, app, autoSaveInterval, touchItem, saveBtn>>

\* the names and quantities the Add Tool form is given
AddNames == {"", " ", "Level", "Claw Hammer"}
AddQuantities == {0, 1}

\* the steps of the view: drags, drops, returns, Return All, Clear, stack toggles
Next ==
    \/ \E r \in Range(AllRefs(view)) : DragStart(r)
    \/ \E z \in DropZones, t \in Times : DropEnd(z, t)
    \/ DragCancel
    \/ \E c \in Crews : \E k \in 1..Len(view.zones[c]) : ReturnClick(c, k)
    \/ \E ok \in BOOLEAN : ReturnAllClick(ok)
    \/ \E ok \in BOOLEAN : ClearClick(ok)
    \/ \E p \in PoolIds : \E i \in 1..Len(view.pools[p]) : ToggleStackClick(p, i)

Spec == Init /\ [][Next]_vars

----------------------------------------------------------------------------
(* The Add Tool specification: the steps of the view with the Add Tool form, *)
(* the drops being on crew zones and available pools                         *)

NextA ==
    \/ \E r \in Range(AllRefs(view)) : DragStart(r)
    \/ \E z \in DropZones \ {PoolZone(POOL_IDS.broken)}, t \in Times : DropEnd(z, t)
    \/ DragCancel
    \/ \E c \in Crews : \E k \in 1..Len(view.zones[c]) : ReturnClick(c, k)
    \/ \E ok \in BOOLEAN : ReturnAllClick(ok)
    \/ \E ok \in BOOLEAN : ClearClick(ok)
    \/ \E n \in AddNames, c \in Categories, q \in AddQuantities : AddToolClick(n, c, q)
    \/ \E p \in PoolIds : \E i \in 1..Len(view.pools[p]) : ToggleStackClick(p, i)

SpecA == Init /\ [][NextA]_vars

----------------------------------------------------------------------------
(* The persistence specification: drops, Save, page loads, Load Yesterday *)

NextP ==
    \/ \E r \in Range(AllRefs(view)) : DragStart(r)
    \/ \E z \in DropZones, t \in Times : DropEnd(z, t)
    \/ DragCancel
    \/ Save
    \/ PageLoad
    \/ \E ok \in BOOLEAN : LoadYesterdayClick(ok)
    \/ AdvanceDay

SpecP == Init /\ [][NextP]_vars

----------------------------------------------------------------------------
(* The history specification: saveToHistory and deleteHistoryEntry calls over *)
(* enough days to overflow the cap                                            *)

\* the last day of the history specification
HMaxDay == HistoryCap + FreeDays + ExtraDays

\* the date keys passed explicitly
FreeKeys == 1..FreeDays

\* storage.js saveToHistory(scheduleData, dateKey); dateKey 0 is the absent argument
HSave(dateKey) ==
    /\ dateKey # 0 => today <= FreeDays
    /\ LET r == saveToHistory(store, ScheduleData(view, inventory, today), dateKey, today)
       IN /\ store' = r.st
          /\ hlog' = IF r.ret
                     THEN [hlog EXCEPT !.saved = @ \cup {IF dateKey = 0 THEN getDateKey(today)
                                                         ELSE dateKey}]
                     ELSE hlog
    /\ UNCHANGED <<inventory, draggedElement, lastUpdateTime, view, isAvailable, today,
                   expandedStacks, app, autoSaveInterval, touchItem, saveBtn>>

\* storage.js deleteHistoryEntry(dateKey)
HDelete(dateKey) ==
    /\ today <= FreeDays
    /\ LET r == deleteHistoryEntry(store, dateKey)
       IN /\ store' = r.st
          /\ hlog' = IF r.ret THEN [hlog EXCEPT !.deleted = @ \cup {dateKey}] ELSE hlog
    /\ UNCHANGED <<inventory, draggedElement, lastUpdateTime, view, isAvailable, today,
                   expandedStacks, app, autoSaveInterval, touchItem, saveBtn>>

\* midnight passes; after the free days every day is saved before it ends
\* (main.js startAutoSave)
HAdvanceDay ==
    /\ today < HMaxDay
    /\ today > FreeDays => getDateKey(today) \in Range(getHistoryDates(store))
    /\ today' = today + 1
    /\ UNCHANGED <<inventory, draggedElement, lastUpdateTime, view, store,
                   isAvailable, hlog, expandedStacks, app, autoSaveInterval, touchItem, saveBtn>>

NextH ==
    \/ \E k \in {0} \cup FreeKeys : HSave(k)
    \/ \E k \in FreeKeys : HDelete(k)
    \/ HAdvanceDay

SpecH == Init /\ [][NextH]_vars

----------------------------------------------------------------------------
(* The validation specification: the Add Tool form at the bounds of the      *)
(* quantity, drags and stack toggles                                          *)

\* the quantities at the two validation bounds and one beyond each
BoundaryQuantities ==
    {MIN_QUANTITY - 1, MIN_QUANTITY, MAX_QUANTITY, MAX_QUANTITY + 1}

NextV ==
    \/ \E n \in AddNames, c \in Categories, q \in BoundaryQuantities :
          AddToolClick(n, c, q)
    \/ \E r \in Range(AllRefs(view)) : DragStart(r)
    \/ DragCancel
    \/ \E p \in PoolIds : \E i \in 1..Len(view.pools[p]) : ToggleStackClick(p, i)

SpecV == Init /\ [][NextV]_vars

----------------------------------------------------------------------------
(* The Application State specifications: calls of the AppState object *)

\* the arguments the calls are given
StackNames == {"Claw Hammer"}
DraggedElements == {Ref("hammersPool", 1, 1)}
\* the tool object a caller builds
ToolLiterals == {[name |-> "Level", qty |-> 1, class |-> "hammer"]}
\* what a caller writes into a tool object it holds
ScribbledName == "scribbled"

\* the frame of the calls of the AppState object
AppFrame == UNCHANGED <<view, store, isAvailable, today, hlog, autoSaveInterval, touchItem, saveBtn>>

\* the state after a write that returned res
Written(res) ==
    /\ app' = Collect(res.a)
    /\ draggedElement' = res.a.draggedElement
    /\ lastUpdateTime' = res.a.lastUpdateTime
    /\ AppFrame

\* the state after a call that changed only the heap and the caller's handle
Held(h, id) ==
    /\ app' = Collect([app EXCEPT !.heap = h, !.handle = id])
    /\ UNCHANGED <<inventory, expandedStacks, draggedElement, lastUpdateTime>>
    /\ AppFrame

HoldsKind(kind) == app.handle # 0 /\ app.heap[app.handle].kind = kind

\* appState.getInventory(): the caller holds what it returns
GetInventoryCall ==
    LET c == AppState_getInventory(app) IN Held(c.h, c.id)

\* appState.getState(): the caller holds one field of what it returns
GetStateCall(field) ==
    LET c == AppState_getState(app) IN Held(c.h, c[field])

\* appState.getExpandedStacks()
GetExpandedStacksCall ==
    LET c == AppState_getExpandedStacks(app) IN Held(c.h, c.id)

\* the caller builds a tool object
NewToolLiteral(val) ==
    LET h == Append(app.heap, ToolObject(val)) IN Held(h, Len(h))

\* the caller writes into the object it holds: a field of a tool object (its
\* own or one of the inventory it holds), a push on a list of the inventory,
\* an add or delete on the Set
Scribble ==
    /\ app.handle # 0
    /\ LET o == app.heap[app.handle]
           scribbled(val) == [val EXCEPT !.name = ScribbledName]
       IN \/ /\ o.kind = "tool"
             /\ Held([app.heap EXCEPT ![app.handle].val = scribbled(@)], app.handle)
          \/ /\ o.kind = "inv"
             /\ \E c \in Categories : \E i \in 1..Len(o.lists[c]) :
                   Held([app.heap EXCEPT ![o.lists[c][i]].val = scribbled(@)], app.handle)
          \/ /\ o.kind = "inv"
             /\ \E c \in Categories, val \in ToolLiterals :
                   /\ Len(o.lists[c]) < Len(DEFAULT_TOOL_INVENTORY[c]) + MaxAdds
                   /\ LET h == Append(app.heap, ToolObject(val))
                      IN Held([h EXCEPT ![app.handle].lists[c] = Append(@, Len(h))],
                              app.handle)
          \/ /\ o.kind = "set"
             /\ \E n \in StackNames :
                   Held([app.heap EXCEPT ![app.handle].elems = StateToggleStack(@, n)],
                        app.handle)

\* appState.setInventory(inventory) with the inventory object the caller holds
SetInventoryCall ==
    /\ HoldsKind("inv")
    /\ inventory' = InventoryValue(app.heap, app.handle)
    /\ UNCHANGED expandedStacks
    /\ Written(AppState_setInventory(app, app.handle))

\* appState.addTool(category, tool) with the tool object the caller holds
AddToolCall(category) ==
    /\ HoldsKind("tool")
    /\ DefinitionCount(inventory) < DefinitionCount(DEFAULT_TOOL_INVENTORY) + MaxAdds
    /\ inventory' = StateAddTool(inventory, category, app.heap[app.handle].val)
    /\ UNCHANGED expandedStacks
    /\ Written(AppState_addTool(app, category, app.handle))

\* appState.toggleStack(toolName)
ToggleStackCall(toolName) ==
    /\ expandedStacks' = StateToggleStack(expandedStacks, toolName)
    /\ UNCHANGED inventory
    /\ Written(AppState_toggleStack(app, toolName))

\* appState.expandAllStacks(toolNames)
ExpandAllStacksCall(toolNames) ==
    /\ expandedStacks' = toolNames
    /\ UNCHANGED inventory
    /\ Written(AppState_expandAllStacks(app, toolNames))

\* appState.collapseAllStacks()
CollapseAllStacksCall ==
    /\ expandedStacks' = {}
    /\ UNCHANGED inventory
    /\ Written(AppState_collapseAllStacks(app))

\* appState.setDraggedElement(element)
SetDraggedElementCall(element) ==
    /\ UNCHANGED <<inventory, expandedStacks>>
    /\ Written(AppState_setDraggedElement(app, element))

\* appState.clearDraggedElement()
ClearDraggedElementCall ==
    /\ UNCHANGED <<inventory, expandedStacks>>
    /\ Written(AppState_clearDraggedElement(app))

\* appState.setLastUpdateTime(time)
SetLastUpdateTimeCall(time) ==
    /\ UNCHANGED <<inventory, expandedStacks>>
    /\ Written(AppState_setLastUpdateTime(app, time))

\* appState.reset()
ResetCall ==
    /\ inventory' = DEFAULT_TOOL_INVENTORY
    /\ expandedStacks' = {}
    /\ Written(AppState_reset(app))

\* appState.subscribe(listener)
SubscribeCall(listener) ==
    /\ app' = AppState_subscribe(app, listener)
    /\ UNCHANGED <<inventory, expandedStacks, draggedElement, lastUpdateTime>>
    /\ AppFrame

\* the function appState.subscribe(listener) returned, called
UnsubscribeCall(listener) ==
    /\ listener \in Range(app.listeners)
    /\ app' = AppState_unsubscribe(app, listener)
    /\ UNCHANGED <<inventory, expandedStacks, draggedElement, lastUpdateTime>>
    /\ AppFrame

\* the writes of the Application State
WriteCalls ==
    \/ SetInventoryCall
    \/ \E c \in Categories : AddToolCall(c)
    \/ \E n \in StackNames : ToggleStackCall(n)
    \/ \E ns \in SUBSET StackNames : ExpandAllStacksCall(ns)
    \/ CollapseAllStacksCall
    \/ \E e \in DraggedElements : SetDraggedElementCall(e)
    \/ ClearDraggedElementCall
    \/ SetLastUpdateTimeCall(TimeString(today))
    \/ ResetCall

\* the reads of the Application State and the objects a caller builds
ReadCalls ==
    \/ GetInventoryCall
    \/ \E f \in {"toolInventory", "expandedStacks"} : GetStateCall(f)
    \/ GetExpandedStacksCall
    \/ \E val \in ToolLiterals : NewToolLiteral(val)

\* the sharing specification: a caller that reads, writes, and writes into
\* the objects it holds
NextS == WriteCalls \/ ReadCalls \/ Scribble

SpecS == Init /\ [][NextS]_vars

\* the observer specification: callers that read and write, observers that
\* subscribe and unsubscribe
NextO ==
    \/ WriteCalls
    \/ ReadCalls
    \/ \E l \in Observers : SubscribeCall(l)
    \/ \E l \in Observers : UnsubscribeCall(l)

SpecO == Init /\ [][NextO]_vars

----------------------------------------------------------------------------
(* The Persistent Store specifications: the calls of storage.js on a durable *)
(* store left by earlier sessions, with the availability probe passed or     *)
(* failed                                                                     *)

\* the day of the session, its yesterday being day 1
SessionDay == 2

\* the history entry saveToHistory wrote on day 1 for an untouched view
SavedEntry ==
    [f \in {"date", "lastUpdate", "inventory", "checkouts", "broken", "savedAt",
            "dateKey"} |->
        IF f \in {"savedAt", "dateKey"} THEN 1
        ELSE ScheduleData(InitialView(DEFAULT_TOOL_INVENTORY),
                          DEFAULT_TOOL_INVENTORY, 1)[f]]

\* a history entry with one crew holding one tool
EntryWithTools ==
    [SavedEntry EXCEPT !.checkouts =
        <<[crew |-> 1, tools |-> <<[tool |-> "Claw Hammer", number |-> 1,
                                    crew |-> 1, time |-> "08:00"]>>]>>]

\* a history entry whose checkout record has no tools list
EntryWithoutTools == [SavedEntry EXCEPT !.checkouts = <<[crew |-> 1]>>]

\* a history entry whose checkouts are not a list
EntryWithObject == [SavedEntry EXCEPT !.checkouts = EmptyObject]

\* what storage.js of an earlier session left for the session day
SavedItems ==
    SCHEDULE :> Stringify(ScheduleData(InitialView(DEFAULT_TOOL_INVENTORY),
                                       DEFAULT_TOOL_INVENTORY, SessionDay))
    @@ DATE :> Stringify(getCurrentDateString(SessionDay))
    @@ UPDATE_TIME :> Stringify(TimeString(1))
    @@ HISTORY_INDEX :> Stringify(<<1>>)
    @@ HistoryKey(1) :> Stringify(EntryWithTools)

\* SavedItems with the text at key replaced
With(key, text) == [k \in DOMAIN SavedItems |-> IF k = key THEN text ELSE SavedItems[k]]

\* the contents of the durable store when the session starts: nothing, what
\* storage.js wrote, malformed or empty texts, and well-formed texts of another shape
StoredItems ==
    <<<<>>, SavedItems,
     [k \in DOMAIN SavedItems |-> MalformedText],
     With(SCHEDULE, EmptyText),
     With(HISTORY_INDEX, Stringify(EmptyObject)),
     With(HISTORY_INDEX, Stringify(NULL)),
     With(HistoryKey(1), Stringify(EntryWithoutTools)),
     With(HistoryKey(1), Stringify(EntryWithObject)),
     With(HistoryKey(1), Stringify(NULL))>>

\* the writes the store still accepts: no limit, none, one, two
Budgets == {-1, 0, 1, 2}

\* the keys of the calls
StoreKeys == {SCHEDULE, DATE, UPDATE_TIME, INVENTORY, HISTORY_INDEX, HistoryKey(1)}

\* storage.js constructor on a store whose probe failed
InitU ==
    /\ inventory = DEFAULT_TOOL_INVENTORY
    /\ draggedElement = NULL
    /\ lastUpdateTime = NULL
    /\ expandedStacks = {}
    /\ view = InitialView(DEFAULT_TOOL_INVENTORY)
    /\ \E i \in 1..2 : store = [items |-> StoredItems[i], budget |-> -1]
    /\ isAvailable = FALSE
    /\ today = SessionDay
    /\ hlog = [saves |-> 0, saved |-> {}, deleted |-> {}, rejected |-> FALSE]
    /\ app = NewAppState
    /\ autoSaveInterval = TRUE
    /\ touchItem = NULL
    /\ saveBtn = SaveButton

\* storage.js constructor on any durable store
InitF ==
    /\ inventory = DEFAULT_TOOL_INVENTORY
    /\ draggedElement = NULL
    /\ lastUpdateTime = NULL
    /\ expandedStacks = {}
    /\ view = InitialView(DEFAULT_TOOL_INVENTORY)
    /\ \E i \in 1..Len(StoredItems), budget \in Budgets :
          store = [items |-> StoredItems[i], budget |-> budget]
    /\ isAvailable \in BOOLEAN
    /\ today = SessionDay
    /\ hlog = [saves |-> 0, saved |-> {}, deleted |-> {}, rejected |-> FALSE]
    /\ app = NewAppState
    /\ autoSaveInterval = TRUE
    /\ touchItem = NULL
    /\ saveBtn = SaveButton

\* a call of storage.js that leaves the store as st
StoreCall(st) ==
    /\ store' = st
    /\ UNCHANGED <<inventory, draggedElement, lastUpdateTime, view, isAvailable, today,
                   hlog, expandedStacks, app, autoSaveInterval, touchItem, saveBtn>>

RemoveItemCall(key) == StoreCall(removeItem(store, key).st)
ClearCall == StoreCall(clear(store).st)
SaveScheduleCall ==
    StoreCall(StorageSaveSchedule(store, ScheduleData(view, inventory, today), today).st)
SaveUpdateTimeCall == StoreCall(saveUpdateTime(store, TimeString(today)).st)
SaveInventoryCall == StoreCall(saveInventory(store, inventory).st)

\* the writing calls of storage.js
StoreCalls ==
    \/ \E key \in StoreKeys : RemoveItemCall(key)
    \/ ClearCall
    \/ SaveScheduleCall
    \/ SaveUpdateTimeCall
    \/ SaveInventoryCall
    \/ \E k \in {0, 1} : HSave(k)
    \/ \E k \in {1, SessionDay} : HDelete(k)

NextU ==
    \/ \E r \in Range(AllRefs(view)) : DragStart(r)
    \/ \E z \in DropZones, t \in Times : DropEnd(z, t)
    \/ DragCancel
    \/ \E c \in Crews : \E k \in 1..Len(view.zones[c]) : ReturnClick(c, k)
    \/ Save
    \/ StoreCalls

SpecU == InitU /\ [][NextU]_vars

NextF ==
    \/ StoreCalls
    \/ Save

SpecF == InitF /\ [][NextF]_vars

----------------------------------------------------------------------------
(* The confirmation specification: drags and drops on a page whose store     *)
(* is empty or holds a record for yesterday, and the four operations that    *)
(* ask for a confirmation, confirmed or declined                              *)

\* the page of the session day over the store an earlier session left
InitG ==
    /\ inventory = DEFAULT_TOOL_INVENTORY
    /\ draggedElement = NULL
    /\ lastUpdateTime = NULL
    /\ expandedStacks = {}
    /\ view = InitialView(DEFAULT_TOOL_INVENTORY)
    /\ \E i \in 1..2 : store = [items |-> StoredItems[i], budget |-> -1]
    /\ isAvailable = TRUE
    /\ today = SessionDay
    /\ hlog = [saves |-> 0, saved |-> {}, deleted |-> {}, rejected |-> FALSE]
    /\ app = NewAppState
    /\ autoSaveInterval = TRUE
    /\ touchItem = NULL
    /\ saveBtn = SaveButton

NextG ==
    \/ \E r \in Range(AllRefs(view)) : DragStart(r)
    \/ \E z \in DropZones, t \in Times : DropEnd(z, t)
    \/ DragCancel
    \/ \E p \in PoolIds : \E i \in 1..Len(view.pools[p]) : ToggleStackClick(p, i)
    \/ \E ok \in BOOLEAN : ReturnAllClick(ok)
    \/ \E ok \in BOOLEAN : ClearClick(ok)
    \/ \E ok \in BOOLEAN : LoadYesterdayClick(ok)
    \/ \E k \in {1, SessionDay}, ok \in BOOLEAN : LoadHistoryByDateClick(k, ok)

SpecG == InitG /\ [][NextG]_vars

----------------------------------------------------------------------------
(* The autosave specification: drags, drops and returns on a loaded page     *)
(* whose autosave timer ticks, the unloading of the page and its reopening   *)

\* a timer whose callback saves the inventory and no checkout or broken tool
autoSaveCallbackInventoryOnly(v, inv, st, d) == MainSaveSchedule(InitialView(inv), inv, st, d)

\* main.js startAutoSave, lines 298-300: the callback of the interval timer
autoSaveCallback(v, inv, st, d) == MainSaveSchedule(v, inv, st, d)

\* a tick whose callback ends the drag under way
AutoSaveTickEndingDrag ==
    /\ autoSaveInterval
    /\ \E r \in {autoSaveCallback(view, inventory, store, today)} :
          /\ store' = r.st
          /\ lastUpdateTime' = IF r.success THEN TimeString(today) ELSE lastUpdateTime
          /\ hlog' = [hlog EXCEPT !.saved = IF r.history THEN @ \cup {getDateKey(today)}
                                            ELSE @]
          /\ saveBtn' = TickButton(saveBtn, r.success)
    /\ draggedElement' = NULL
    /\ UNCHANGED <<inventory, view, isAvailable, today, expandedStacks,
                   app, autoSaveInterval, touchItem>>

\* the timer set by startAutoSave fires
AutoSaveTick ==
    /\ autoSaveInterval
    /\ \E r \in {autoSaveCallback(view, inventory, store, today)} :
          /\ store' = r.st
          /\ lastUpdateTime' = IF r.success THEN TimeString(today) ELSE lastUpdateTime
          /\ hlog' = [hlog EXCEPT !.saved = IF r.history THEN @ \cup {getDateKey(today)}
                                            ELSE @]
          /\ saveBtn' = TickButton(saveBtn, r.success)
    /\ UNCHANGED <<inventory, draggedElement, view, isAvailable, today, expandedStacks,
                   app, autoSaveInterval, touchItem>>

\* main.js cleanup on beforeunload: stopAutoSave
Unload ==
    /\ autoSaveInterval
    /\ autoSaveInterval' = FALSE
    /\ UNCHANGED <<inventory, draggedElement, lastUpdateTime, view, store, isAvailable,
                   today, hlog, expandedStacks, app, touchItem, saveBtn>>

\* the page is opened again after it was unloaded
Reopen == ~autoSaveInterval /\ PageLoad

\* the steps of the user on a loaded page
UserSteps ==
    \/ \E r \in Range(AllRefs(view)) : DragStart(r)
    \/ \E z \in DropZones, t \in Times : DropEnd(z, t)
    \/ DragCancel
    \/ \E c \in Crews : \E k \in 1..Len(view.zones[c]) : ReturnClick(c, k)

NextT ==
    \/ autoSaveInterval /\ UserSteps
    \/ AutoSaveTick
    \/ Unload
    \/ Reopen

\* a tick would change the state: ENABLED <<AutoSaveTick>>_vars
TickEnabled ==
    /\ autoSaveInterval
    /\ LET r == autoSaveCallback(view, inventory, store, today)
       IN \/ r.st # store
          \/ r.success /\ lastUpdateTime # TimeString(today)
          \/ r.history /\ getDateKey(today) \notin hlog.saved
          \/ TickButton(saveBtn, r.success) # saveBtn

\* setInterval keeps calling its callback while the timer is set: the weak
\* fairness WF_vars(AutoSaveTick), with its ENABLED written as TickEnabled
SpecT ==
    /\ Init /\ [][NextT]_vars
    /\ ([]<>~TickEnabled \/ []<><<AutoSaveTick>>_vars)

----------------------------------------------------------------------------
(* The gesture specification: pointer drags and touch drags over every drop *)
(* target, with returns and stack toggles between the gestures              *)

\* what a gesture can end over: a drop target, another .drop-zone, or nothing
GestureTargets == DropZones \cup {OtherZone, NULL}

NextD ==
    \/ \E r \in Range(AllRefs(view)) : DragStart(r)
    \/ \E z \in GestureTargets \ {NULL}, t \in Times : DropEnd(z, t)
    \/ DragCancel
    \/ \E r \in Range(AllRefs(view)) : TouchStart(r)
    \/ \E z \in GestureTargets, t \in Times : TouchEnd(z, t)
    \/ \E c \in Crews : \E k \in 1..Len(view.zones[c]) : ReturnClick(c, k)
    \/ \E p \in PoolIds : \E i \in 1..Len(view.pools[p]) : ToggleStackClick(p, i)

SpecD == Init /\ [][NextD]_vars

----------------------------------------------------------------------------
(* The live region: the text the handlers leave in #ariaLiveRegion. The code *)
(* only writes it, so it is followed as a result of the handlers             *)

\* a message: its wording and the tool name, number and crew it carries
Message(text, tool, num, crew) == [text |-> text, tool |-> tool, num |-> num, crew |-> crew]

\* the live region with no text
EmptyLive == Message("", "", 0, 0)

\* an announceToScreenReader that finds no live region
announceToScreenReaderMute(live, message) == live

\* dom.js announceToScreenReader: liveRegion.textContent = message
announceToScreenReader(live, message) == message

\* tools.js updateStackCount: the announcement when nothing is left in the stack
updateStackCountLive(stack, live) ==
    IF updateStackCount(stack).badge = 0
    THEN announceToScreenReader(live,
            Message("All tools from .. have been checked out", stack.name, 0, 0))
    ELSE live

\* updateStackCount on the stack of reference r in the document v, when r lies in one
UpdateStackOfLive(v, r, live) ==
    IF InStack(r) THEN updateStackCountLive(v.pools[r.pool][r.i], live) ELSE live

\* drag.js handleDrop: the live region after the drop
handleDropLive(v, r, dropZone, time, live) ==
    IF r = NULL THEN live
    ELSE LET e == ElemAt(v, r) IN
         IF dropZone.kind = "crew"
         THEN LET res == checkoutTool(v, r, dropZone.crew, time)
                  said == announceToScreenReader(live,
                             Message(".. number .. checked out to Crew ..",
                                     e.name, e.num, dropZone.crew))
              IN IF res.ret THEN UpdateStackOfLive(res.v, r, said) ELSE live
         ELSE IF dropZone.id = "brokenPool"
         THEN announceToScreenReader(live,
                 Message(".. number .. marked as broken", e.name, e.num, 0))
         ELSE IF dropZone.kind = "pool" /\ e.broken
         THEN announceToScreenReader(live,
                 Message(".. number .. returned to inventory", e.name, e.num, 0))
         ELSE live

\* tools.js returnTool: the live region after the call
returnToolLive(v, r, live) ==
    IF r = NULL THEN live
    ELSE LET e == ElemAt(v, r)
             originalTool == QueryTool(v, e.name, e.num)
         IN IF originalTool = NULL THEN live
            ELSE announceToScreenReader(
                    UpdateStackOfLive(returnTool(v, r).v, originalTool, live),
                    Message(".. #.. returned", e.name, e.num, 0))

\* crews.js handleReturnTool on row k of crew c: the live region after the click
handleReturnToolLive(v, c, k, live) ==
    returnToolLive(v, QueryTool(v, v.zones[c][k].tool, v.zones[c][k].num), live)

\* tools.js createToolStack, lines 95-124: the live region after a click on the
\* stack that is child i of pool p
toggleStackLive(v, p, i, live) ==
    LET toggled == toggleStack(v, p, i).pools[p][i]
    IN announceToScreenReader(
          updateStackCountLive(toggled, live),
          Message(IF toggled.expanded THEN ".. stack expanded" ELSE ".. stack collapsed",
                  toggled.name, 0, 0))

----------------------------------------------------------------------------
(* Vocabulary of the properties *)

\* the element at r is tagged broken or lies in the broken pool
IsBroken(v, r) == ElemAt(v, r).broken \/ r.pool = POOL_IDS.broken

\* the element at r is marked checked out
IsOut(v, r) == ElemAt(v, r).out

\* the elements at r and a are two elements carrying one (toolName, instanceNumber)
SameInstance(v, r, a) ==
    r # a /\ ElemAt(v, r).name = ElemAt(v, a).name /\ ElemAt(v, r).num = ElemAt(v, a).num

\* the element at r is available: not checked out, not broken, and shown
IsAvailable(v, r) ==
    /\ ~IsOut(v, r) /\ ~IsBroken(v, r) /\ ~ElemAt(v, r).hidden
    /\ InStack(r) => ~v.pools[r.pool][r.i].hidden

\* the stacks of the document, as (pool, child index) pairs
Stacks(v) ==
    {pi \in PoolIds \X (1..(DefaultQty + MaxBroken + MaxAdds + 1)) :
        pi[2] <= Len(v.pools[pi[1]]) /\ v.pools[pi[1]][pi[2]].kind = "stack"}

\* the elements that are instances of the Tool Definition called name
InstancesOf(v, name) == {r \in Range(AllRefs(v)) : ElemAt(v, r).name = name}

\* the quantity of the first Tool Definition called name
DefinitionQty(inv, name) ==
    LET defs == SelectSeq(Flatten([k \in 1..Len(CategoryOrder) |-> inv[CategoryOrder[k]]]),
                          LAMBDA d : d.name = name)
    IN IF defs = <<>> THEN 0 ELSE defs[1].qty

----------------------------------------------------------------------------
(* C1: mutual exclusivity of available, checked out and broken *)

\* C1: in every state reached by drops, returns, Return All and Clear, no
\* instance is both broken (tagged broken or lying in the broken pool) and marked
\* checked out, and no instance of the broken pool also appears in an available pool.
C1_MutualExclusion ==
    /\ \A r \in Range(AllRefs(view)) : ~(IsBroken(view, r) /\ IsOut(view, r))
    /\ \A r \in Range(PoolRefs(view, POOL_IDS.broken)) :
          \A a \in Range(AllRefs(view)) :
              a.pool # POOL_IDS.broken => ~SameInstance(view, r, a)

\* C1: an instance lying in the broken pool, tagged broken, and marked checked
\* out to a crew with a checkout row in that crew's zone
C1_BrokenAndCheckedOut ==
    \E r \in Range(PoolRefs(view, POOL_IDS.broken)) :
        /\ ElemAt(view, r).broken /\ IsOut(view, r)
        /\ \E c \in Crews : \E k \in 1..Len(view.zones[c]) :
              view.zones[c][k].tool = ElemAt(view, r).name
              /\ view.zones[c][k].num = ElemAt(view, r).num

----------------------------------------------------------------------------
(* C2: checkout / return round trip *)

\* C2: for every available instance i and crew c, the drop of i on the zone of
\* c followed by the Return control of the new row leaves i available and shown
\* with no crew and no checkout time, the checkout rows as they were, and the
\* badge of every stack of i's Tool Definition as it was before the checkout.
C2_RoundTrip ==
    \A r \in Range(AllRefs(view)) : \A c \in Crews : \A t \in Times :
        IsAvailable(view, r) =>
            LET v1 == handleDrop(view, r, CrewZone(c), t)
                v2 == handleReturnTool(v1, c, Len(v1.zones[c]))
            IN /\ IsOut(v1, r)
               /\ IsAvailable(v2, r)
               /\ ElemAt(v2, r).crew = 0 /\ ElemAt(v2, r).time = ""
               /\ v2.zones = view.zones
               /\ \A pi \in Stacks(view) :
                     view.pools[pi[1]][pi[2]].name = ElemAt(view, r).name
                     => v2.pools[pi[1]][pi[2]].badge = view.pools[pi[1]][pi[2]].badge

\* C2: a stack with an available instance whose badge does not count the
\* stack's available instances, so that a checkout and return of the instance
\* leaves another badge than before
C2_StaleBadgeBeforeCheckout ==
    \E r \in Range(AllRefs(view)) :
        /\ InStack(r) /\ IsAvailable(view, r)
        /\ view.pools[r.pool][r.i].badge # updateStackCount(view.pools[r.pool][r.i]).badge

----------------------------------------------------------------------------
(* C3: the count badge of a stack *)

\* C3: for every stack of a Tool Definition of quantity q > 1 whose q instances
\* are all in the document and none broken, k of them being checked out, the
\* badge shows q - k and the stack is hidden exactly when k = q.
C3_StackCount ==
    \A pi \in Stacks(view) :
        LET stack == view.pools[pi[1]][pi[2]]
            q == DefinitionQty(inventory, stack.name)
            inst == InstancesOf(view, stack.name)
            k == Cardinality({r \in inst : IsOut(view, r)})
        IN (q > 1 /\ Cardinality(inst) = q /\ \A r \in inst : ~IsBroken(view, r))
           => stack.badge = q - k /\ (stack.hidden <=> k = q)

\* C3: one of the q = 2 never-broken instances is checked out and the badge
\* of their stack still shows 2
C3_BadgeAfterLooseCheckout ==
    \E pi \in Stacks(view) :
        LET stack == view.pools[pi[1]][pi[2]]
            inst == InstancesOf(view, stack.name)
        IN /\ Cardinality(inst) = DefinitionQty(inventory, stack.name)
           /\ \A r \in inst : ~IsBroken(view, r)
           /\ Cardinality({r \in inst : IsOut(view, r)}) = 1
           /\ stack.badge = DefinitionQty(inventory, stack.name)

----------------------------------------------------------------------------
(* C4: Save followed by a load of today's snapshot *)

\* the checkout records of the view: (tool name, instance number, crew)
CheckoutSet(v) ==
    {<<x.tool, x.number, x.crew>> : x \in Range(CheckoutEntries(getCheckoutData(v)))}

\* the broken set of the view: (tool name, instance number)
BrokenSet(v) == {<<x.name, x.number>> : x \in Range(getBrokenToolsData(v))}

\* C4: in every reachable state, a successful Save followed by the load of
\* today's snapshot into the page loaded anew the same day completes without an
\* error and gives the same inventory, the same checkout records and the same
\* broken set.
C4_SaveLoadIdempotent ==
    LET saved == MainSaveSchedule(view, inventory, store, today)
        loaded == MainLoadSchedule(InitialView(DEFAULT_TOOL_INVENTORY),
                                   DEFAULT_TOOL_INVENTORY, saved.st, today)
    IN saved.success =>
          /\ loaded.outcome = "loaded"
          /\ loaded.inv = inventory
          /\ CheckoutSet(loaded.v) = CheckoutSet(view)
          /\ BrokenSet(loaded.v) = BrokenSet(view)

\* C4: a page loaded from today's snapshot whose load stopped at the first
\* checked-out instance of a stack: the snapshot names a broken instance and
\* the view has none
C4_LoadStoppedEarly ==
    LET slot == StorageLoadSchedule(store, today)
    IN /\ slot # NULL
       /\ slot.broken # <<>> /\ slot.checkouts # <<>>
       /\ BrokenSet(view) = {}
       /\ Cardinality(CheckoutSet(view)) = 1

----------------------------------------------------------------------------
(* C5: the staleness guard of the today slot *)

\* the Schedule Snapshot fields of a history record
SnapshotOf(historyEntry) ==
    [f \in {"date", "lastUpdate", "inventory", "checkouts", "broken"} |-> historyEntry[f]]

\* C5: loadSchedule returns the today slot exactly when the stored date marker
\* is the current date, and nothing otherwise; a snapshot saved by Save on day D
\* is, on every later day, absent from loadSchedule and still returned by
\* loadFromHistory for D's date key, and on day D + 1 by loadYesterday.
C5_StalenessGuard ==
    LET slot == getItem(store, SCHEDULE, NULL)
        marker == getItem(store, DATE, NULL)
    IN /\ StorageLoadSchedule(store, today) =
             IF marker = getCurrentDateString(today) THEN slot ELSE NULL
       /\ \A D \in 1..MaxDay :
             (hlog.saves > 0 /\ marker = getCurrentDateString(D) /\ today > D) =>
                 /\ StorageLoadSchedule(store, today) = NULL
                 /\ loadFromHistory(store, getDateKey(D)) # NULL
                 /\ SnapshotOf(loadFromHistory(store, getDateKey(D))) = slot
                 /\ today = D + 1 =>
                       /\ StorageLoadYesterday(store, today) # NULL
                       /\ SnapshotOf(StorageLoadYesterday(store, today)) = slot

\* C5: the day after a Save of a snapshot with a checkout, the page has been
\* loaded anew and shows the default inventory with no checkout, the slot still
\* holding the snapshot
C5_StaleSlotIgnored ==
    /\ hlog.saves > 0
    /\ today = 2
    /\ getItem(store, DATE, NULL) = getCurrentDateString(1)
    /\ getItem(store, SCHEDULE, NULL) # NULL
    /\ getItem(store, SCHEDULE, NULL).checkouts # <<>>
    /\ StorageLoadSchedule(store, today) = NULL
    /\ StorageLoadYesterday(store, today) # NULL
    /\ view = InitialView(DEFAULT_TOOL_INVENTORY)

----------------------------------------------------------------------------
(* C6, C7, C8: the history index *)

\* the index is strictly descending: distinct date keys, most recent first
Descending(index) ==
    \A i \in 1..Len(index) : \A j \in 1..Len(index) : i < j => index[i] > index[j]

\* C6: the history index never holds more than 90 date keys, and holds exactly
\* 90 once entries for 91 or more distinct dates have been saved and none deleted.
C6_HistoryCap ==
    LET index == getHistoryDates(store)
    IN /\ Len(index) <= HistoryCap
       /\ (hlog.deleted = {} /\ Cardinality(hlog.saved) >= HistoryCap + 1)
          => Len(index) = HistoryCap

\* C6: entries for exactly 91 distinct dates saved, none deleted, 90 keys held
C6_NinetyOneSaved ==
    /\ hlog.deleted = {}
    /\ Cardinality(hlog.saved) = HistoryCap + 1
    /\ Len(getHistoryDates(store)) = HistoryCap

\* C7: whenever a saveToHistory call overflows the cap, the date key evicted is
\* the oldest of the keys held, its record is no longer returned by
\* loadFromHistory, and the record of every other key still is.
C7_OldestEvicted ==
    \A k \in {0} \cup FreeKeys :
        LET index == getHistoryDates(store)
            key == IF k = 0 THEN getDateKey(today) ELSE k
            held == Range(index) \cup {key}
            oldest == CHOOSE x \in held : \A y \in held : x <= y
            after == saveToHistory(store, ScheduleData(view, inventory, today), k, today).st
        IN (Len(index) = HistoryCap /\ key \notin Range(index))
           => /\ Range(getHistoryDates(after)) = held \ {oldest}
              /\ loadFromHistory(after, oldest) = NULL
              /\ \A y \in held \ {oldest} : loadFromHistory(after, y) # NULL

\* C7: a full index whose last key is not its oldest: the next new date evicts
\* the last key and keeps an older one
C7_TailNotOldest ==
    LET index == getHistoryDates(store)
    IN /\ Len(index) = HistoryCap
       /\ \E i \in 1..Len(index) : index[i] < index[Len(index)]
       /\ getDateKey(today) \notin Range(index)

\* C8: the history index is at all times a list of distinct date keys, most
\* recent date first.
C8_IndexMostRecentFirst == Descending(getHistoryDates(store))

\* C8: an older date saved after a newer one stands before it in the index
C8_OlderKeyFirst ==
    LET index == getHistoryDates(store)
    IN Len(index) >= 2 /\ index[1] < index[2]

----------------------------------------------------------------------------
(* C9: Return All *)

\* C9: in every reachable state Return All leaves no instance marked checked
\* out or hidden and no checkout row in any crew zone, does not change the
\* broken set, and returns the number of instances checked out before the call.
C9_ReturnAll ==
    LET res == returnAllTools(view)
    IN /\ \A r \in Range(AllRefs(res.v)) : ~IsOut(res.v, r) /\ ~ElemAt(res.v, r).hidden
       /\ \A c \in Crews : res.v.zones[c] = <<>>
       /\ BrokenSet(res.v) = BrokenSet(view)
       /\ res.count = Cardinality({r \in Range(AllRefs(view)) : IsOut(view, r)})

\* C9: no checkout row is left and an instance is still marked checked out and
\* hidden, another element carrying its name and number
C9_LeftCheckedOut ==
    /\ \A c \in Crews : view.zones[c] = <<>>
    /\ \E r \in Range(AllRefs(view)) :
          /\ IsOut(view, r) /\ ElemAt(view, r).hidden
          /\ \E a \in Range(AllRefs(view)) : SameInstance(view, r, a)

----------------------------------------------------------------------------
(* C10: Clear *)

\* C10: in every reachable state a confirmed Clear leaves no checkout record
\* and no instance marked checked out, the Application State inventory equal to
\* the configured default inventory, and the available pools rendered as the
\* default inventory renders them.
C10_ClearResets ==
    LET res == MainClearAllCheckouts(view, inventory)
    IN /\ getCheckoutData(res.v) = <<>>
       /\ \A r \in Range(AllRefs(res.v)) : ~IsOut(res.v, r)
       /\ res.inv = DEFAULT_TOOL_INVENTORY
       /\ \A p \in PoolIds \ {POOL_IDS.broken} :
             res.v.pools[p] = InitialView(DEFAULT_TOOL_INVENTORY).pools[p]

\* C10: the view rendered by a Clear, with no checkout, from an Application
\* State inventory that holds an added Tool Definition
C10_ClearedWithAddedTool ==
    /\ inventory # DEFAULT_TOOL_INVENTORY
    /\ view = MainClearAllCheckouts(view, inventory).v
    /\ lastUpdateTime # NULL
    /\ \E p \in PoolIds \ {POOL_IDS.broken} :
          view.pools[p] # InitialView(DEFAULT_TOOL_INVENTORY).pools[p]

----------------------------------------------------------------------------
(* C11: the load of a historical snapshot *)

\* the checkout records a snapshot holds: (tool name, instance number, crew)
SnapshotCheckoutSet(data) ==
    {<<x.tool, x.number, x.crew>> : x \in Range(CheckoutEntries(data.checkouts))}

\* the broken list a snapshot holds: (tool name, instance number)
SnapshotBrokenSet(data) == {<<x.name, x.number>> : x \in Range(data.broken)}

\* the instances the view marks checked out: (tool name, instance number, crew)
MarkedOutSet(v) ==
    {<<ElemAt(v, r).name, ElemAt(v, r).num, ElemAt(v, r).crew>> :
        r \in {a \in Range(AllRefs(v)) : IsOut(v, a)}}

\* C11: in every reachable state in which yesterday's snapshot exists, the
\* confirmed Load Yesterday leaves the inventory equal to the snapshot's
\* inventory, the checkout rows and the instances marked checked out equal to
\* exactly the snapshot's checkouts, and the instances of the broken pool equal
\* to exactly the snapshot's broken list.
C11_LoadReplaces ==
    LET yesterdayData == StorageLoadYesterday(store, today)
    IN yesterdayData # NULL =>
          LET r == LoadData(view, inventory, yesterdayData)
          IN /\ r.inv = yesterdayData.inventory
             /\ CheckoutSet(r.v) = SnapshotCheckoutSet(yesterdayData)
             /\ MarkedOutSet(r.v) = SnapshotCheckoutSet(yesterdayData)
             /\ BrokenSet(r.v) = SnapshotBrokenSet(yesterdayData)

\* C11: the view a completed load of yesterday's snapshot leaves (the stack
\* rendered whole, no checkout row), the broken pool holding an instance the
\* snapshot's broken list does not name
C11_BrokenSurvivesLoad ==
    LET yesterdayData == StorageLoadYesterday(store, today)
    IN /\ yesterdayData # NULL
       /\ LoadData(view, inventory, yesterdayData).outcome = "loaded"
       /\ view = LoadData(view, inventory, yesterdayData).v
       /\ view.pools[POOL_IDS.hammers] = InitialView(yesterdayData.inventory).pools[POOL_IDS.hammers]
       /\ BrokenSet(view) # {}
       /\ SnapshotBrokenSet(yesterdayData) = {}

----------------------------------------------------------------------------
(* C12: Add Tool validation *)

\* C12: in every reachable state, for every name and every quantity of 0, 1,
\* 999 and 1000, addTool rejects an empty or whitespace-only name, rejects
\* quantity 0 and quantity 1000, and accepts quantity 999 with a name that is
\* not blank; every rejected add returns success = false with a non-empty list
\* of messages and leaves the inventory and the rendered pools as they were.
C12_Validation ==
    \A name \in AddNames, c \in Categories, q \in BoundaryQuantities :
        LET res == addTool(view, inventory, name, c, q)
            blank == name \in {"", " "}
        IN /\ (blank \/ q = 0 \/ q = 1000) =>
                 /\ ~res.success
                 /\ res.errors # <<>>
                 /\ res.inv = inventory
                 /\ res.v = view
           /\ (~blank /\ q = 999) =>
                 /\ res.success
                 /\ res.inv # inventory
                 /\ Len(res.v.pools[POOL_IDS[c]]) = Len(view.pools[POOL_IDS[c]]) + 1

\* C12: the Add Tool form has shown an error and has added a Tool Definition of
\* quantity 999, whose stack of 999 instances is rendered
C12_RejectedAndMaxAdded ==
    /\ hlog.rejected
    /\ \E k \in 1..Len(inventory.hammers) : inventory.hammers[k].qty = MAX_QUANTITY
    /\ \E pi \in Stacks(view) :
          /\ view.pools[pi[1]][pi[2]].badge = MAX_QUANTITY
          /\ Len(view.pools[pi[1]][pi[2]].items) = MAX_QUANTITY

----------------------------------------------------------------------------
(* C13: the frame of a successful Add Tool *)

\* the quantities of the added Tool Definition: a single element and a stack
FrameQuantities == {MIN_QUANTITY, MIN_QUANTITY + 1}

\* C13: in every reachable state, for every accepted name and quantity, addTool
\* leaves the category's list equal to the old list with exactly the new Tool
\* Definition appended, every other category's list unchanged, every element of
\* the document at its place with its number and its available / checked-out /
\* broken marks unchanged, every stack's badge unchanged, the checkout rows
\* unchanged, and one child appended at the end of the category's pool.
C13_AddToolFrame ==
    \A name \in AddNames \ {"", " "}, c \in Categories, q \in FrameQuantities :
        LET res == addTool(view, inventory, name, c, q)
            p == POOL_IDS[c]
        IN /\ res.success
           /\ res.inv[c] = Append(inventory[c], [name |-> name, qty |-> q,
                                                 class |-> CATEGORY_CLASSES[c]])
           /\ \A d \in DOMAIN inventory \ {c} : res.inv[d] = inventory[d]
           /\ DOMAIN res.inv = DOMAIN inventory
           /\ res.v.zones = view.zones
           /\ \A o \in PoolIds \ {p} : res.v.pools[o] = view.pools[o]
           /\ Len(res.v.pools[p]) = Len(view.pools[p]) + 1
           /\ SubSeq(res.v.pools[p], 1, Len(view.pools[p])) = view.pools[p]
           /\ \A r \in Range(AllRefs(view)) : ElemAt(res.v, r) = ElemAt(view, r)

\* C13: a Tool Definition has been added behind the default one while an
\* instance of the default definition is checked out and another is available
C13_AddedBesideCheckedOut ==
    /\ Len(inventory.hammers) = Len(DEFAULT_TOOL_INVENTORY.hammers) + 1
    /\ inventory.hammers[1] = DEFAULT_TOOL_INVENTORY.hammers[1]
    /\ inventory.hammers[2].name = "Level"
    /\ \E r \in Range(AllRefs(view)) : ElemAt(view, r).name = "Level"
    /\ \E r \in Range(AllRefs(view)) : ElemAt(view, r).name = "Claw Hammer" /\ IsOut(view, r)
    /\ \E r \in Range(AllRefs(view)) :
          ElemAt(view, r).name = "Claw Hammer" /\ IsAvailable(view, r)

----------------------------------------------------------------------------
(* C14: Tool Instance identity *)

\* C14: in every state reached by drops, returns, Return All, Clear and Add
\* Tool, no two elements of the document carry the same (toolName,
\* instanceNumber) pair, and the Return control of every checkout row restores
\* an element that was marked checked out.
C14_UniqueIdentity ==
    /\ \A r \in Range(AllRefs(view)) : \A a \in Range(AllRefs(view)) :
          ~SameInstance(view, r, a)
    /\ \A c \in Crews : \A k \in 1..Len(view.zones[c]) :
          LET hit == QueryTool(view, view.zones[c][k].tool, view.zones[c][k].num)
          IN hit # NULL /\ IsOut(view, hit)

\* C14: two elements carry one (toolName, instanceNumber) pair, the second is
\* checked out with a checkout row, and the lookup by that pair finds the
\* first, which is not checked out
C14_LookupFindsOther ==
    \E r \in Range(AllRefs(view)) : \E a \in Range(AllRefs(view)) :
        /\ SameInstance(view, r, a)
        /\ IsOut(view, r) /\ ~IsOut(view, a)
        /\ QueryTool(view, ElemAt(view, r).name, ElemAt(view, r).num) = a
        /\ \E c \in Crews : \E k \in 1..Len(view.zones[c]) :
              view.zones[c][k].tool = ElemAt(view, r).name
              /\ view.zones[c][k].num = ElemAt(view, r).num

----------------------------------------------------------------------------
(* C15, C16, C17: the Application State object *)

\* the Application State by value, as the writes so far left it
WrittenState ==
    [toolInventory |-> inventory, expandedStacks |-> expandedStacks,
     draggedElement |-> draggedElement, lastUpdateTime |-> lastUpdateTime]

\* the objects this.state holds, and the objects the caller can reach
OwnObjects(a) == Range(InvRefs(a.heap, a.toolInventory)) \cup {a.expandedStacks}
HeldObjects(a) ==
    IF a.handle = 0 THEN {}
    ELSE IF a.heap[a.handle].kind = "inv" THEN Range(InvRefs(a.heap, a.handle))
    ELSE {a.handle}

\* C15: whatever the caller has written into the objects it got from
\* getInventory, getState or getExpandedStacks or passed to setInventory or
\* addTool, a read returns the inventory and the expanded stacks the writes so
\* far have set, and no object the caller can reach is an object of this.state.
C15_DeepCopies ==
    /\ InventoryValue(app.heap, app.toolInventory) = inventory
    /\ app.heap[app.expandedStacks].elems = expandedStacks
    /\ InventoryValue(AppState_getInventory(app).h, AppState_getInventory(app).id) = inventory
    /\ LET c == AppState_getState(app)
       IN /\ InventoryValue(c.h, c.toolInventory) = inventory
          /\ c.h[c.expandedStacks].elems = expandedStacks
    /\ OwnObjects(app) \cap HeldObjects(app) = {}

\* C15: the caller holds an inventory object it has written into, after a write
\* that added a Tool Definition, and the Application State holds no trace of
\* what the caller wrote
C15_ScribbledCopy ==
    /\ app.handle # 0
    /\ app.heap[app.handle].kind = "inv"
    /\ ScribbledName \in {app.heap[id].val.name :
                             id \in Range(InvRefs(app.heap, app.handle)) \ {app.handle}}
    /\ Len(inventory.hammers) = Len(DEFAULT_TOOL_INVENTORY.hammers) + 1
    /\ \A i \in 1..Len(inventory.hammers) : inventory.hammers[i].name # ScribbledName

\* what every write the caller can make in the current state returns
WriteResults(a) ==
    {AppState_toggleStack(a, n) : n \in StackNames}
    \cup {AppState_expandAllStacks(a, ns) : ns \in SUBSET StackNames}
    \cup {AppState_setDraggedElement(a, e) : e \in DraggedElements}
    \cup {AppState_collapseAllStacks(a), AppState_clearDraggedElement(a),
          AppState_setLastUpdateTime(a, TimeString(today)), AppState_reset(a)}
    \cup (IF a.handle # 0 /\ a.heap[a.handle].kind = "inv"
          THEN {AppState_setInventory(a, a.handle)} ELSE {})
    \cup (IF a.handle # 0 /\ a.heap[a.handle].kind = "tool"
          THEN {AppState_addTool(a, c, a.handle) : c \in Categories} ELSE {})

\* the observers a write called, in the order of the calls
Called(res) == [i \in 1..Len(res.notified) |-> res.notified[i].listener]

\* C16: every write calls the subscribed observers, each once, in subscription
\* order, before it returns, and passes each the state the write has left; so
\* every subscribed observer has last been passed the state as the writes so
\* far left it, unless it subscribed after the last write.
C16_NotifyInOrder ==
    /\ \A res \in WriteResults(app) :
          /\ Called(res) = app.listeners
          /\ \A i \in 1..Len(res.notified) : res.notified[i].state = StateValue(res.a)
    /\ \A i \in 1..Len(app.listeners) : \A j \in 1..Len(app.listeners) :
          i # j => app.listeners[i] # app.listeners[j]
    /\ StateValue(app) = WrittenState
    /\ \A l \in Range(app.listeners) : app.seen[l] \in {NULL, WrittenState}

\* C16: every observer of the model is subscribed and was passed, by a write
\* that changed the inventory, the state that write left
C16_AllNotified ==
    /\ Len(app.listeners) = NumObservers
    /\ inventory # DEFAULT_TOOL_INVENTORY
    /\ \A l \in Observers : app.seen[l] = WrittenState

\* C17: while an observer that throws is subscribed, no write throws to its
\* caller, every write takes effect, and every other subscribed observer is
\* still called, each once and in subscription order, with the state the write left.
C17_ThrowingObserver ==
    (\E l \in Range(app.listeners) : Throws(l)) =>
        /\ StateValue(app) = WrittenState
        /\ \A res \in WriteResults(app) :
              /\ ~res.threw
              /\ SelectSeq(Called(res), LAMBDA l : ~Throws(l))
                    = SelectSeq(app.listeners, LAMBDA l : ~Throws(l))
              /\ \A l \in Range(app.listeners) : res.a.seen[l] = StateValue(res.a)
        /\ \A l \in Range(app.listeners) : app.seen[l] \in {NULL, WrittenState}

\* C17: the observer that throws subscribed first, and the observers after it
\* were passed the state a later write of the update time left
C17_CalledAfterThrower ==
    /\ Len(app.listeners) >= 2
    /\ Throws(app.listeners[1])
    /\ lastUpdateTime # NULL
    /\ \A i \in 2..Len(app.listeners) : app.seen[app.listeners[i]] = WrittenState

----------------------------------------------------------------------------
(* C18: the Persistent Store when the availability probe failed *)

\* C18: when the availability probe failed, every writing call of the Persistent
\* Store (setItem, removeItem, clear, saveSchedule, saveToHistory,
\* deleteHistoryEntry, saveUpdateTime, saveInventory) returns false and leaves the
\* durable store as it was, every read returns its default (getItem the default
\* passed, loadSchedule / loadFromHistory / loadYesterday null, getHistoryDates /
\* getHistorySummary the empty list), and a drop on a crew, a drop on the broken
\* pool and a return still change the view.
C18_StorageUnavailable ==
    ~isAvailable =>
        LET data == ScheduleData(view, inventory, today)
            failed == [st |-> store, ret |-> FALSE]
            quiet == [st |-> store, ret |-> FALSE, threw |-> FALSE]
        IN /\ \A key \in StoreKeys :
                 /\ setItem(store, key, data) = failed
                 /\ removeItem(store, key) = failed
                 /\ getItem(store, key, <<>>) = <<>>
                 /\ \A default \in {NULL, EmptyObject} : getItem(store, key, default) = default
           /\ clear(store) = failed
           /\ StorageSaveSchedule(store, data, today) = failed
           /\ saveUpdateTime(store, TimeString(today)) = failed
           /\ saveInventory(store, inventory) = failed
           /\ \A k \in {0, 1, SessionDay} :
                 /\ saveToHistory(store, data, k, today) = quiet
                 /\ k # 0 => deleteHistoryEntry(store, k) = quiet
                 /\ k # 0 => loadFromHistory(store, k) = NULL
           /\ StorageLoadSchedule(store, today) = NULL
           /\ StorageLoadYesterday(store, today) = NULL
           /\ getHistoryDates(store) = <<>>
           /\ getHistorySummary(store) = [value |-> <<>>, threw |-> FALSE]
           /\ MainSaveSchedule(view, inventory, store, today).st = store
           /\ updateLastModifiedTime(store, today) = store
           /\ \A r \in Range(AllRefs(view)), t \in Times :
                 IsAvailable(view, r) =>
                    /\ \A c \in Crews :
                          Len(handleDrop(view, r, CrewZone(c), t).zones[c])
                             = Len(view.zones[c]) + 1
                    /\ Len(handleDrop(view, r, PoolZone(POOL_IDS.broken), t)
                              .pools[POOL_IDS.broken])
                          = Len(view.pools[POOL_IDS.broken]) + 1
           /\ \A c \in Crews : \A k \in 1..Len(view.zones[c]) :
                 Len(handleReturnTool(view, c, k).zones[c]) = Len(view.zones[c]) - 1

\* C18 witness: with the probe failed and a store filled by an earlier session,
\* a tool is checked out, a tool is broken, Save was clicked and the update time
\* is shown, while the durable store still holds the update time of day 1
C18_WorkedInMemory ==
    /\ ~isAvailable
    /\ store.items = SavedItems
    /\ \E c \in Crews : view.zones[c] # <<>>
    /\ view.pools[POOL_IDS.broken] # <<>>
    /\ hlog.saves > 0
    /\ lastUpdateTime = TimeString(today)
    /\ Parse(store.items[UPDATE_TIME]) = TimeString(1)

----------------------------------------------------------------------------
(* C19: getItem *)

\* two decoded values print alike, and so are the same value (values that
\* went through different constructions can be equal and print differently)
SameValue(a, b) == ToString(a) = ToString(b)

\* the defaults passed to getItem
Defaults == <<NULL, <<>>, EmptyObject>>

\* C19: for any contents of the durable store, getItem(key, default) never
\* raises; it returns the decoded value when the store is available and the key
\* holds a well-formed text, and the default when the key is absent, when its
\* text is empty or malformed, or when the store is unavailable.
C19_GetItem ==
    \A key \in StoreKeys : \A i \in 1..Len(Defaults) :
        LET got == getItem(store, key, Defaults[i])
            held == key \in DOMAIN store.items
        IN /\ ~SameValue(got, Raised)
           /\ IF isAvailable /\ held /\ WellFormed(store.items[key])
              THEN SameValue(got, store.items[key].json)
              ELSE SameValue(got, Defaults[i])

\* C19 witness: an available store holds a malformed text under one key, a
\* text written by this session under another and nothing under a third
C19_MalformedBesideWritten ==
    /\ isAvailable
    /\ SCHEDULE \in DOMAIN store.items /\ ~WellFormed(store.items[SCHEDULE])
    /\ UPDATE_TIME \in DOMAIN store.items
    /\ SameValue(getItem(store, UPDATE_TIME, NULL), TimeString(SessionDay))
    /\ INVENTORY \notin DOMAIN store.items
    /\ SameValue(getItem(store, SCHEDULE, <<>>), <<>>)

----------------------------------------------------------------------------
(* C20: the calls of the Persistent Store and what they raise *)

----------------------------------------------------------------------------
(* C21: a write that exceeds the quota *)

\* C21: on an available store that accepts no more writes, setItem returns
\* false for every key and leaves every stored text as it was, the one under
\* its own key and the history entries and index among them; saveSchedule,
\* saveUpdateTime, saveInventory and saveToHistory, whose first write it is,
\* return false and leave the store as it was.
C21_QuotaExceeded ==
    (isAvailable /\ store.budget = 0) =>
        LET data == ScheduleData(view, inventory, today)
            failed == [st |-> store, ret |-> FALSE]
        IN /\ \A key \in StoreKeys \cup {HistoryKey(SessionDay)} :
                 setItem(store, key, data) = failed
           /\ StorageSaveSchedule(store, data, today) = failed
           /\ saveUpdateTime(store, TimeString(today)) = failed
           /\ saveInventory(store, inventory) = failed
           /\ \A k \in {0, 1} :
                 saveToHistory(store, data, k, today)
                    = [st |-> store, ret |-> FALSE, threw |-> FALSE]

\* C21 witness: the last write the store accepted was the update time of the
\* session; the store is full and still holds the history entry of day 1 and
\* the index naming it
C21_FullWithHistory ==
    /\ isAvailable
    /\ store.budget = 0
    /\ UPDATE_TIME \in DOMAIN store.items
    /\ SameValue(getItem(store, UPDATE_TIME, NULL), TimeString(SessionDay))
    /\ HistoryKey(1) \in DOMAIN store.items
    /\ SameValue(getHistoryDates(store), <<1>>)
    /\ ~setItem(store, SCHEDULE, ScheduleData(view, inventory, today)).ret

----------------------------------------------------------------------------
(* C22: Save writes the today slot and the history log *)

\* the history log of a store: the texts of the history entries and of the index
HistoryLog(st) ==
    [k \in {j \in DOMAIN st.items : j[1] \in {"toolHistory_", "toolHistoryIndex"}} |->
        st.items[k]]

\* the fields of a Schedule Snapshot found in a history entry
SnapshotFields(entry) ==
    [date |-> entry.date, lastUpdate |-> entry.lastUpdate, inventory |-> entry.inventory,
     checkouts |-> entry.checkouts, broken |-> entry.broken]

\* C22: whenever Save reports success, loadSchedule on the same day and
\* loadFromHistory of today's date key return the snapshot Save wrote and today's
\* date key is in the history index; whenever Save reports failure, the history
\* log is as it was.
C22_SaveWritesBoth ==
    LET data == ScheduleData(view, inventory, today)
        r == MainSaveSchedule(view, inventory, store, today)
        entry == loadFromHistory(r.st, getDateKey(today))
    IN IF r.success
       THEN /\ StorageLoadSchedule(r.st, today) = data
            /\ ~IsNull(entry)
            /\ SnapshotFields(entry) = data
            /\ getDateKey(today) \in Range(getHistoryDates(r.st))
       ELSE HistoryLog(r.st) = HistoryLog(store)

\* C22 witness: Save was clicked and the update time of its success is shown,
\* the today slot holds the snapshot, and the history log has no entry for today
C22_SavedWithoutHistory ==
    /\ isAvailable
    /\ hlog.saves > 0
    /\ lastUpdateTime = TimeString(today)
    /\ StorageLoadSchedule(store, today) = ScheduleData(view, inventory, today)
    /\ HistoryKey(getDateKey(today)) \notin DOMAIN store.items

----------------------------------------------------------------------------
(* C23: autosave *)

\* the today slot holds the snapshot of the live inventory, checkouts and broken set
Persisted == StorageLoadSchedule(store, today) = ScheduleData(view, inventory, today)

\* C23: with the store available and accepting writes, after every tick of the
\* autosave timer the today slot holds the snapshot of the live inventory,
\* checkouts and broken set, and while the page stays loaded the timer keeps
\* ticking: whatever a drop or a return changed is persisted, or the page was
\* unloaded first.
C23_Autosave ==
    /\ [][AutoSaveTick => Persisted']_vars
    /\ (autoSaveInterval /\ ~Persisted) ~> (Persisted \/ ~autoSaveInterval)

\* C23 witness: a tool is checked out, a tool is broken, and the today slot
\* holds both though Save was never clicked
C23_PersistedByTimer ==
    /\ autoSaveInterval
    /\ hlog.saves = 0
    /\ \E c \in Crews : view.zones[c] # <<>>
    /\ view.pools[POOL_IDS.broken] # <<>>
    /\ Persisted

----------------------------------------------------------------------------
(* C24: the confirmation gate *)

\* a step of Clear, Return All, Load Yesterday or load-by-date whose
\* confirmation is declined, or of a load that finds no record
Declined ==
    \/ ClearClick(FALSE)
    \/ ReturnAllClick(FALSE)
    \/ LoadYesterdayClick(FALSE)
    \/ \E k \in {1, SessionDay} : LoadHistoryByDateClick(k, FALSE)
    \/ StorageLoadYesterday(store, today) = NULL /\ LoadYesterdayClick(TRUE)
    \/ \E k \in {1, SessionDay} :
          loadFromHistory(store, k) = NULL /\ LoadHistoryByDateClick(k, TRUE)

\* C24: a Clear, Return All, Load Yesterday or load-by-date whose confirmation
\* is declined, and a load that finds no record, change nothing: the inventory,
\* the document with its checkout rows and broken pool, the expanded stacks,
\* the shown update time and the durable store stay as they were.
C24_ConfirmationGate ==
    [][Declined =>
          UNCHANGED <<inventory, view, expandedStacks, lastUpdateTime, store>>]_vars

\* C24 witness: a tool is checked out, a tool is broken and a stack is
\* expanded while the store holds a record for yesterday: Clear, Return All and
\* both loads would each change the document if they were confirmed
C24_GatesMatter ==
    /\ draggedElement = NULL
    /\ \E c \in Crews : view.zones[c] # <<>>
    /\ view.pools[POOL_IDS.broken] # <<>>
    /\ expandedStacks # {}
    /\ returnAllTools(view).v # view
    /\ MainClearAllCheckouts(view, inventory).v # view
    /\ StorageLoadYesterday(store, today) # NULL
    /\ LoadData(view, inventory, StorageLoadYesterday(store, today)).v # view

----------------------------------------------------------------------------
(* C25: the count badge after mark-broken and un-break *)

\* the number of instances of the Tool Definition called name that are neither
\* checked out nor broken
AvailableCount(v, name) ==
    Cardinality({r \in InstancesOf(v, name) : ~IsOut(v, r) /\ ~IsBroken(v, r)})

\* every stack of the definition called name shows the number of its available
\* instances and is hidden exactly when there are none
BadgeCurrent(v, name) ==
    \A pi \in Stacks(v) :
        LET stack == v.pools[pi[1]][pi[2]]
        IN stack.name = name =>
              /\ stack.badge = AvailableCount(v, name)
              /\ stack.hidden <=> AvailableCount(v, name) = 0

\* the step drops the dragged instance on the broken pool, or drops a dragged
\* broken instance on an available pool
BrokenDrop ==
    /\ draggedElement # NULL
    /\ draggedElement' = NULL
    /\ \E t \in Times :
          \/ /\ ~IsBroken(view, draggedElement)
             /\ view' = handleDrop(view, draggedElement, PoolZone(POOL_IDS.broken), t)
          \/ /\ IsBroken(view, draggedElement)
             /\ \E p \in PoolIds \ {POOL_IDS.broken} :
                   view' = handleDrop(view, draggedElement, PoolZone(p), t)

----------------------------------------------------------------------------
(* C26: the dragged reference over a gesture *)

\* the step is a dragstart or a touchstart on the tool element r
GestureStart(r) == DragStart(r) \/ TouchStart(r)

\* the step ends a gesture: a drop followed by dragend, a dragend without a
\* drop, or a touchend, over a crew zone, the broken pool, an available pool,
\* another element or nothing
GestureEnd ==
    \/ \E z \in GestureTargets \ {NULL}, t \in Times : DropEnd(z, t)
    \/ DragCancel
    \/ \E z \in GestureTargets, t \in Times : TouchEnd(z, t)

\* C26: a drag start or touch start on a draggable instance sets the dragged
\* reference to that instance, and every step that ends a gesture, whatever the
\* drop outcome and on both the pointer and the touch path, leaves the dragged
\* reference null.
C26_DraggedReference ==
    /\ [][\A r \in Range(AllRefs(view)) : GestureStart(r) => draggedElement' = r]_vars
    /\ [][GestureEnd => draggedElement' = NULL /\ touchItem' = NULL]_vars

\* C26: no gesture is under way after drops on a crew zone and on the broken pool
C26_AfterCompletedGestures ==
    /\ draggedElement = NULL
    /\ touchItem = NULL
    /\ lastUpdateTime # NULL
    /\ \E c \in Crews : view.zones[c] # <<>>
    /\ view.pools[POOL_IDS.broken] # <<>>

----------------------------------------------------------------------------
(* C27: checked-out instances and drag starts *)

\* the stack labels of the document, as element references
StackLabels(v) == {Ref(pi[1], pi[2], 0) : pi \in Stacks(v)}

\* the checkout rows of the document, as (crew, row index) pairs
Rows(v) ==
    {ck \in Crews \X (1..(DefaultQty + MaxBroken + MaxAdds + 1)) : ck[2] <= Len(v.zones[ck[1]])}

\* a dragstart and a touchstart on target leave the dragged reference as it is
StartRefused(target) ==
    /\ handleDragStart(view, draggedElement, target) = draggedElement
    /\ handleTouchStart(view, draggedElement, touchItem, target).draggedElement
          = draggedElement

\* no two checkout rows name one (toolName, instanceNumber)
OneRowPerInstance(v) ==
    \A a, b \in Rows(v) :
        LET ra == v.zones[a[1]][a[2]]
            rb == v.zones[b[1]][b[2]]
        IN (ra.tool = rb.tool /\ ra.num = rb.num) => a = b

----------------------------------------------------------------------------
(* C28: drops that resolve to nothing *)

\* C28: a drop or a touch end over a target that is neither a crew zone, nor the
\* broken pool, nor an available pool, and a drop over any target while nothing
\* is being dragged, leaves the document as it is (no checkout row, no element
\* changed or moved, no badge changed) and does not reach the update of the
\* last-modified time.
C28_NoOpDrop ==
    \A z \in GestureTargets, t \in Times :
        (z \in {NULL, OtherZone} \/ draggedElement = NULL) =>
            /\ dropListener(view, draggedElement, z, t) = [v |-> view, handled |-> FALSE]
            /\ LET s == handleTouchEnd(view, draggedElement, touchItem, z, t)
               IN s.v = view /\ ~s.handled

\* C28: an instance is being dragged by touch beside a checkout row, and a drop
\* on every crew zone and pool would change the document
C28_DragOverNothing ==
    /\ draggedElement # NULL
    /\ touchItem # NULL
    /\ \E c \in Crews : view.zones[c] # <<>>
    /\ \A z \in DropZones, t \in Times :
          dropListener(view, draggedElement, z, t).v # view

----------------------------------------------------------------------------
(* C29: announcements *)

\* the live region holds a message that names the tool called name
Names(live, name) == live # EmptyLive /\ live.tool = name

----------------------------------------------------------------------------
(* C30: checkout rows and checked-out instances *)

\* the elements marked checked out with crew c that carry the pair of the row
MarkedFor(v, row, c) ==
    {r \in Range(AllRefs(v)) :
        /\ ElemAt(v, r).name = row.tool /\ ElemAt(v, r).num = row.num
        /\ IsOut(v, r) /\ ElemAt(v, r).crew = c}

\* the rows, of any crew, that carry the pair of the element at r
RowsOf(v, r) ==
    {ck \in Rows(v) : /\ v.zones[ck[1]][ck[2]].tool = ElemAt(v, r).name
                      /\ v.zones[ck[1]][ck[2]].num = ElemAt(v, r).num}

\* the (tool, number, crew) triples of the snapshot read from the rows
SnapshotTriples(v) ==
    {[tool |-> e.tool, number |-> e.number, crew |-> e.crew] :
        e \in Range(CheckoutEntries(getCheckoutData(v)))}

\* the (tool, number, crew) triples of the elements marked checked out
CheckedOutTriples(v) ==
    {[tool |-> ElemAt(v, r).name, number |-> ElemAt(v, r).num, crew |-> ElemAt(v, r).crew] :
        r \in {a \in Range(AllRefs(v)) : IsOut(v, a)}}

----------------------------------------------------------------------------
(* C31: the history index and the history records *)

\* the date keys of the snapshot records toolHistory_<key> in the store
RecordedKeys(st) == {j[2] : j \in {k \in DOMAIN st.items : k[1] = "toolHistory_"}}

\* the stored history index is absent or the text of a list
IndexReadable(st) ==
    HISTORY_INDEX \in DOMAIN st.items =>
        /\ WellFormed(st.items[HISTORY_INDEX])
        /\ IsList(Parse(st.items[HISTORY_INDEX]))

\* the date keys in the stored history index
IndexedKeys(st) ==
    IF HISTORY_INDEX \in DOMAIN st.items
    THEN Range(Parse(st.items[HISTORY_INDEX])) ELSE {}

\* a date key is in the index if and only if its record exists
HistoryConsistent(st) == IndexReadable(st) /\ IndexedKeys(st) = RecordedKeys(st)

\* C31: from a store whose history index lists exactly the date keys that have
\* a record, saveToHistory (with its eviction) and deleteHistoryEntry leave a
\* store whose index lists exactly the date keys that have a record, whether
\* or not the store accepts each write.
C31_IndexMatchesRecords ==
    HistoryConsistent(store) =>
        /\ \A k \in {0} \cup FreeKeys :
              HistoryConsistent(saveToHistory(store, ScheduleData(view, inventory, today),
                                              k, today).st)
        /\ \A k \in FreeKeys : HistoryConsistent(deleteHistoryEntry(store, k).st)

\* C31 witness: saveToHistory reported today's record saved into a store that
\* held no history, and the record is there with no history index beside it
C31_OrphanedRecord ==
    /\ isAvailable
    /\ getDateKey(today) \in hlog.saved
    /\ RecordedKeys(store) = {getDateKey(today)}
    /\ HISTORY_INDEX \notin DOMAIN store.items

----------------------------------------------------------------------------
(* C37: what a true result of Storage.saveSchedule promises *)

\* C37: whenever Storage.saveSchedule returns true, loadSchedule on the same
\* calendar day returns the snapshot just saved.
C37_TrueMeansLoadable ==
    LET data == ScheduleData(view, inventory, today)
        r == StorageSaveSchedule(store, data, today)
    IN r.ret => StorageLoadSchedule(r.st, today) = data

\* C37 witness: the store took its last write, the today slot holds today's
\* snapshot with no date marker beside it, and loadSchedule returns null
C37_SlotWithoutMarker ==
    /\ isAvailable
    /\ store.budget = 0
    /\ SCHEDULE \in DOMAIN store.items
    /\ DATE \notin DOMAIN store.items
    /\ getItem(store, SCHEDULE, NULL) = ScheduleData(view, inventory, today)
    /\ StorageLoadSchedule(store, today) = NULL

----------------------------------------------------------------------------
(* The expansion specification: stack toggles, Expand All, Add Tool, Clear   *)
(* and Load Yesterday on a page whose store is empty or holds yesterday's    *)
(* record                                                                    *)

\* the .tool-stack elements of pool p, as positions
StacksOf(v, p) == {i \in 1..Len(v.pools[p]) : v.pools[p][i].kind = "stack"}

\* stack.dataset.toolName of every .tool-stack (tools.js, line 328)
AllToolNames(v) ==
    UNION {{v.pools[p][i].name : i \in StacksOf(v, p)} : p \in PoolIds}

\* tools.js toggleExpandAll, line 326: no .tool-stack.expanded in the document
ShouldExpand(v) == ~\E p \in PoolIds : \E i \in StacksOf(v, p) : v.pools[p][i].expanded

\* tools.js toggleExpandAll, lines 331 and 335: the class set on every stack
SetExpanded(v, flag) ==
    [v EXCEPT !.pools =
        [p \in PoolIds |->
            SubSeq([i \in 1..Len(v.pools[p]) |->
                       IF v.pools[p][i].kind = "stack"
                       THEN [v.pools[p][i] EXCEPT !.expanded = flag]
                       ELSE v.pools[p][i]],
                   1, Len(v.pools[p]))]]

\* tools.js toggleExpandAll: the view and the expanded set it leaves
toggleExpandAll(v) ==
    IF ShouldExpand(v)
    THEN [v |-> SetExpanded(v, TRUE), expandedStacks |-> AllToolNames(v)]
    ELSE [v |-> SetExpanded(v, FALSE), expandedStacks |-> {}]

\* main.js, line 115: click on the Expand All button
ToggleExpandAllClick ==
    /\ draggedElement = NULL
    /\ view' = toggleExpandAll(view).v
    /\ expandedStacks' = toggleExpandAll(view).expandedStacks
    /\ UNCHANGED <<inventory, draggedElement, lastUpdateTime, store, isAvailable,
                   today, hlog, app, autoSaveInterval, touchItem, saveBtn>>

\* the quantity of the tools added: a stack of two
StackQuantities == {2}

NextE ==
    \/ \E p \in PoolIds : \E i \in 1..Len(view.pools[p]) : ToggleStackClick(p, i)
    \/ ToggleExpandAllClick
    \/ \E n \in {"Level", "Claw Hammer"}, c \in Categories, q \in StackQuantities :
          AddToolClick(n, c, q)
    \/ \E ok \in BOOLEAN : ClearClick(ok)
    \/ \E ok \in BOOLEAN : LoadYesterdayClick(ok)

SpecE == InitG /\ [][NextE]_vars

----------------------------------------------------------------------------
(* C32: the expanded-stack set of the Application State and the view *)

\* the names of the stacks the view shows expanded
ShownExpanded(v) ==
    UNION {{v.pools[p][i].name : i \in {j \in StacksOf(v, p) : v.pools[p][j].expanded}} :
              p \in PoolIds}

\* C32: after any sequence of stack toggles, Expand All / Collapse All, Add
\* Tool, Clear and snapshot loads, the expanded-stack set of the Application
\* State is the set of the stacks the view shows expanded.
C32_ExpandedSetMatchesView == expandedStacks = ShownExpanded(view)

\* C32 witness: the inventory was rendered again after a stack was expanded:
\* every stack is shown collapsed and the Application State still holds a name
C32_CollapsedButRecorded ==
    /\ lastUpdateTime = TimeString(today)
    /\ ShownExpanded(view) = {}
    /\ expandedStacks # {}

----------------------------------------------------------------------------
(* C33: the startup load and the autosave timer *)

\* main.js init, line 65: the load of today's snapshot at startup, from the
\* page as rendered by lines 53-56
StartupLoad(st, d) ==
    MainLoadSchedule(InitialView(DEFAULT_TOOL_INVENTORY), DEFAULT_TOOL_INVENTORY, st, d)

\* the page shows what a startup load that stopped part-way left
LoadedPartly ==
    /\ autoSaveInterval
    /\ StartupLoad(store, today).outcome = "error"
    /\ view = StartupLoad(store, today).v
    /\ inventory = StartupLoad(store, today).inv

\* the timer is set only by a step that made the startup load, and while it
\* is not set nothing writes the store
TimerAfterLoad ==
    /\ [][(~autoSaveInterval /\ autoSaveInterval') =>
             /\ view' = StartupLoad(store, today).v
             /\ inventory' = StartupLoad(store, today).inv
             /\ store' = store]_vars
    /\ [][~autoSaveInterval => store' = store]_vars

\* C33: the autosave timer is set only in the step that made the startup load
\* of today's snapshot, no write reaches the store while the timer is not set,
\* and a tick on a page that shows a startup load that stopped part-way leaves
\* the today slot as it was.
C33_StartupOrdering ==
    /\ TimerAfterLoad
    /\ [][(AutoSaveTick /\ LoadedPartly) =>
             getItem(store', SCHEDULE, NULL) = getItem(store, SCHEDULE, NULL)]_vars

\* C33 witness: the page was opened again, the load of the stored snapshot
\* stopped part-way, and the today slot still holds the snapshot that was
\* stored, which is not what the page shows
C33_PartialLoadPending ==
    /\ LoadedPartly
    /\ ~Persisted

----------------------------------------------------------------------------
(* The feedback specification: Save, the ticks of the autosave timer and the *)
(* timers of showSaveFeedback, with drags and drops between them             *)

\* a timer set by showSaveFeedback fires (timers of one delay fire in the
\* order they were set)
FeedbackTimeout ==
    /\ saveBtn.timers # <<>>
    /\ saveBtn' = feedbackTimeout(saveBtn)
    /\ UNCHANGED <<inventory, draggedElement, lastUpdateTime, expandedStacks, view, store,
                   isAvailable, today, hlog, app, autoSaveInterval, touchItem>>

NextB ==
    \/ Save
    \/ AutoSaveTick
    \/ FeedbackTimeout
    \/ \E r \in Range(AllRefs(view)) : DragStart(r)
    \/ \E z \in DropZones, t \in Times : DropEnd(z, t)
    \/ DragCancel

SpecB == Init /\ [][NextB]_vars

----------------------------------------------------------------------------
(* C34: the feedback of the Save button *)

\* C34: whenever no timer of showSaveFeedback is pending, the Save button
\* shows the label and the background it was served with.
C34_FeedbackTransient ==
    saveBtn.timers = <<>> =>
        /\ saveBtn.text = SaveButton.text
        /\ saveBtn.bg = SaveButton.bg

\* C34 witness: Save was clicked, every timer has fired, and the button still
\* shows the feedback
C34_FeedbackStuck ==
    /\ hlog.saves > 0
    /\ saveBtn.timers = <<>>
    /\ saveBtn.text = "Saved!"

----------------------------------------------------------------------------
(* C35: what a save leaves alone *)

\* C35: a tick of the autosave timer or a click on Save, at any point between
\* the user's events and between the start and the end of a drag, leaves the
\* inventory, the view (every instance's status and the checkout rows), the
\* expanded-stack set and the dragged reference as they were.
C35_SaveFrame ==
    [][(AutoSaveTick \/ Save) =>
          UNCHANGED <<inventory, view, expandedStacks, draggedElement, touchItem>>]_vars

\* C35 witness: a drag is under way over a checkout made earlier, and the
\* today slot holds the snapshot of what the page shows
C35_SavedDuringDrag ==
    /\ draggedElement # NULL
    /\ \E c \in Crews : view.zones[c] # <<>>
    /\ lastUpdateTime = TimeString(today)
    /\ Persisted

----------------------------------------------------------------------------
(* The setup specification: drags and drops on a page whose drag events are  *)
(* set up again by Add Tool, Clear, Load Yesterday and a reload of the page  *)

\* the drops of the setup specification: on the first crew and on the broken pool
SetupZones == {CrewZone(1), PoolZone(POOL_IDS.broken)}

NextL ==
    \/ \E r \in Range(AllRefs(view)) : DragStart(r)
    \/ \E z \in SetupZones, t \in Times : DropEnd(z, t)
    \/ DragCancel
    \/ \E c \in Categories : AddToolClick("Level", c, MIN_QUANTITY)
    \/ \E ok \in BOOLEAN : ClearClick(ok)
    \/ \E ok \in BOOLEAN : LoadYesterdayClick(ok)
    \/ PageLoad

SpecL == InitG /\ [][NextL]_vars

----------------------------------------------------------------------------
(* C36: drag setup run again *)

\* the handleDragStart calls a dragstart event on the element at r makes
DragStartCalls(v, r) == ListenerCount(ElemAt(v, r).on, "dragstart")

\* C36: however often the drag events were set up, a drop of the dragged
\* element on a crew zone adds exactly one checkout row to that zone, and a
\* dragstart event on a tool element calls handleDragStart at most once.
C36_NoDuplicateHandling ==
    /\ [][\A c \in Crews :
             (\E t \in Times : DropEnd(CrewZone(c), t)) =>
                 Len(view'.zones[c]) = Len(view.zones[c]) + 1]_vars
    /\ [](\A r \in Range(AllRefs(view)) : DragStartCalls(view, r) <= 1)

\* C36 witness: a tool was added after the page was set up, one of its
\* elements was dragged to a crew, and the crew has the one row of it
C36_DroppedAfterSetups ==
    /\ DefinitionCount(inventory) > DefinitionCount(DEFAULT_TOOL_INVENTORY)
    /\ draggedElement = NULL
    /\ \E c \in Crews :
          /\ Len(view.zones[c]) = 1
          /\ view.zones[c][1].tool = "Level"
    /\ \A r \in Range(AllRefs(view)) : DragStartCalls(view, r) = 1

====
